---- MODULE Spec2Model ----
(***************************************************************************)
(* Product-catalog service: the create / update / delete sagas over the    *)
(* record store (Postgres) and the object store (Cloudinary), in the four  *)
(* server revisions of the repository:                                     *)
(*   "server"   src/backend/server.js   single image, no authentication    *)
(*   "part_002" src/unnamed/part_002    single image, JWT authentication   *)
(*   "part_001" src/unnamed/part_001    image list, service-health flags   *)
(*   "part_000" src/unnamed/part_000    image list, update route only      *)
(* A request handler is a process; every awaited store call is one step.   *)
(* The federated login route of the two single-image revisions, over the   *)
(* users table, is a process of its own.                                   *)
(***************************************************************************)
EXTENDS Integers, Sequences, FiniteSets, TLC

\* ---------------------------------------------------------------- bounds
MaxReq  == 2    \* request handlers in flight at the same time
MaxId   == 1    \* rows the record store inserts
MaxObj  == 2    \* objects the object store takes in
MaxImgs == 2    \* length of an incoming image list
MaxOps  == 2    \* requests the service receives
MaxLogins == 3  \* federated logins the service receives

\* -------------------------------------------------------------- constants
Retries == 3    \* dbRetries / cloudRetries of testConnections

Revisions   == {"server", "part_002", "part_001", "part_000"}
SingleImage == {"server", "part_002"}
MultiImage  == {"part_001", "part_000"}

Slots == 1..MaxReq

\* A field the request does not carry (undefined in the handler).
Absent == "absent"

\* Callers of the auth-enabled revision: the payload of a verified JWT.
NoUser  == [id |-> 0, role |-> "none"]
Callers == {[id |-> 1, role |-> "customer"],
            [id |-> 2, role |-> "customer"],
            [id |-> 3, role |-> "admin"]}
\* What the Authorization header carries.
Tokens  == {"missing", "expired", "invalid", "valid"}

\* ------------------------------------------------------- values and URLs
\* An uploaded object n has public id n; its secure_url is a URL of the
\* service's own folder whose file name is n.
Url(n)    == <<"cdn", n>>
Data      == <<"data", 0>>      \* a base64 payload, "data:..."

\* img.startsWith('data:')
StartsWithData(img) == img[1] = "data"

\* part_001 delete: the public id rebuilt from the URL's last path segment.
PublicIdOf(url) == url[2]

\* images.filter(pred), order kept
RECURSIVE Filter(_, _)
Filter(seq, keepData) ==
  IF seq = <<>> THEN <<>>
  ELSE IF StartsWithData(Head(seq)) = keepData
       THEN <<Head(seq)>> \o Filter(Tail(seq), keepData)
       ELSE Filter(Tail(seq), keepData)

Range(seq) == {seq[k] : k \in 1..Len(seq)}

\* JavaScript truthiness of a request field
Truthy(x) == x \notin {Absent, ""}

\* Numbers: a parsed number, or NaN
Num(v) == [nan |-> FALSE, v |-> v]
NaN    == [nan |-> TRUE, v |-> 0]

\* parseFloat of a request field
ParseFloat(x) ==
  CASE x = "7"  -> Num(7)
    [] x = "12" -> Num(12)
    [] x = "-5" -> Num(0 - 5)
    [] OTHER    -> NaN

Names       == {Absent, "Widget"}
PriceInputs == {Absent, "7", "-5"}
\* sku of a request to the revision whose table has `sku TEXT UNIQUE NOT NULL`
Skus        == {Absent, "S1", "S2"}


\* ------------------------------------------------------------------ state
VARIABLES
  rev,         \* which server revision is deployed (fixed)
  status,      \* part_001/part_000: the service-health flags
  boot,        \* part_001/part_000: testConnections' position and counters
  products,    \* record store: id -> row, for the ids that have a row
  cloud,       \* object store: the public ids that hold an object
  nextId,      \* record store: next id to hand out
  nextObj,     \* object store: next public id to hand out
  req,         \* request handlers: slot -> the handler's locals and position
  prevDelete,  \* the delete invocation that completed last, if no other
               \* invocation was started since (history, for reading only)
  served,      \* requests received so far
  users,       \* record store: the users table, row k having id k
  login,       \* the handler of POST /api/auth/google, with the number of
               \* logins received and, for reading only, the row each
               \* identity was given when it first logged in
  history      \* what became of the rows this run has written (history, for
               \* reading only): born, the record each create returned, for
               \* the ids no UPDATE or DELETE has touched since; gone, the ids
               \* a DELETE was executed for

vars == <<rev, status, boot, products, cloud, nextId, nextObj, req, prevDelete,
          served, history, users, login>>

NoDelete == [id |-> 0, status |-> 0, clean |-> FALSE, stopped |-> FALSE]

\* A handler slot with no request in it.  Besides the handler's locals it
\* keeps, for reading only: log, the store calls the handler made; alone,
\* whether no other handler was in flight with it; intact, whether the
\* row's stored image existed when the handler read the row; prev, the
\* delete that preceded it.
Idle ==
  [op |-> "none", pc |-> "idle", token |-> "valid", user |-> NoUser, id |-> 0,
   name |-> Absent, price |-> Absent, category |-> Absent, sku |-> Absent,
   file |-> FALSE, images |-> <<>>,
   existing |-> <<>>, imageUrl |-> Url(0), cloudinaryId |-> 0,
   newCloudinaryId |-> 0, oldCloudinaryId |-> 0, cloudinaryUrls |-> <<>>,
   newImages |-> <<>>, i |-> 0, result |-> <<>>, error |-> "",
   log |-> <<>>, resp |-> <<>>, alone |-> TRUE, intact |-> FALSE,
   prev |-> NoDelete]

InFlight(r) == r.pc \notin {"idle", "done", "hung"}

\* One call to a store, as the handler made it.
Call(c, arg, ok) == [call |-> c, arg |-> arg, ok |-> ok]

\* res.status(code).json(...): the handler's response; the handler ends.
Respond(r, code, msg, rows) ==
  [r EXCEPT !.pc = "done",
            !.resp = Append(@, [status |-> code, msg |-> msg, product |-> rows])]

\* The record store outlives the process: it may hold a product, with its
\* image in the object store, that an earlier run of the service created.
SeedId  == 1
SeedObj == SeedId
SeedRow ==
  IF rev \in SingleImage
  THEN [name |-> "Seed", price |-> Num(3), image_url |-> Url(SeedObj),
        cloudinary_id |-> SeedObj,
        created_by |-> IF rev = "part_002" THEN 1 ELSE 0]
  ELSE [name |-> "Seed", price |-> Num(3), sku |-> "S1",
        images |-> <<Url(SeedObj)>>]

\* The users table outlives the process too: the seeded product of the
\* auth-enabled revision references its creator (created_by REFERENCES
\* users(id)), a user of an earlier run whose role was set out of band.
SeedUser ==
  [google_id |-> "g1", email |-> "e1", full_name |-> "Ann",
   avatar_url |-> "pic1", role |-> "admin"]

\* The login handler when no login is being served.
NoLogin ==
  [pc |-> "idle", token |-> FALSE, google_id |-> "", email |-> "",
   full_name |-> "", avatar_url |-> "", found |-> 0, log |-> <<>>, resp |-> <<>>]

Init ==
  /\ rev \in Revisions
  /\ status = IF rev \in MultiImage
              THEN [cloudinary |-> FALSE, database |-> FALSE]
              ELSE [cloudinary |-> TRUE, database |-> TRUE]
  /\ boot = IF rev \in MultiImage
            THEN [pc |-> "db", dbRetries |-> Retries, cloudRetries |-> Retries,
                  dbLog |-> <<>>, cloudLog |-> <<>>]
            ELSE [pc |-> "done", dbRetries |-> 0, cloudRetries |-> 0,
                  dbLog |-> <<>>, cloudLog |-> <<>>]  \* no startup probe
  /\ \E seeded \in BOOLEAN :
       /\ IF seeded
          THEN products = (SeedId :> SeedRow) /\ cloud = {SeedObj}
          ELSE products = <<>> /\ cloud = {}
       /\ users = IF seeded /\ rev = "part_002" THEN <<SeedUser>> ELSE <<>>
       /\ login = [h |-> NoLogin, n |-> 0,
                   first |-> IF seeded /\ rev = "part_002"
                             THEN (<<SeedUser.google_id, SeedUser.email>> :> 1)
                             ELSE <<>>]
  /\ nextId = SeedId + 1
  /\ nextObj = SeedObj + 1
  /\ req = [s \in Slots |-> Idle]
  /\ prevDelete = NoDelete
  /\ served = 0
  /\ history = [born |-> <<>>, gone |-> {}]

\* -------------------------------------------------- startup (part_001/000)
\* Mutation: the database loop has no `break`: it goes on probing after a
\* success until its attempts are used up.
ProbeDatabase_NoBreak(ok) ==
  /\ boot.pc = "db"
  /\ status' = IF ok THEN [status EXCEPT !.database = TRUE] ELSE status
  /\ boot' = [boot EXCEPT !.dbLog = Append(@, ok),
                          !.dbRetries = @ - 1,
                          !.pc = IF boot.dbRetries - 1 = 0 THEN "cloud" ELSE "db"]
  /\ UNCHANGED <<rev, users, login, products, history, cloud, nextId,
                 nextObj, req, prevDelete, served>>

\* testConnections, first loop: one `await sql SELECT 1` attempt.  dbLog
\* keeps the attempts' outcomes (for reading only).
ProbeDatabase(ok) ==
  /\ boot.pc = "db"
  /\ IF ok
     THEN /\ status' = [status EXCEPT !.database = TRUE]
          /\ boot' = [boot EXCEPT !.pc = "cloud", !.dbLog = Append(@, ok)]
     ELSE /\ status' = status
          /\ boot' = [boot EXCEPT !.dbLog = Append(@, ok),
                                  !.dbRetries = @ - 1,
                                  !.pc = IF boot.dbRetries - 1 = 0
                                         THEN "cloud" ELSE "db"]
  /\ UNCHANGED <<rev, users, login, products, history, cloud, nextId,
                 nextObj, req, prevDelete, served>>

\* testConnections has returned; its locals are gone.
Returned == [pc |-> "done", dbRetries |-> 0, cloudRetries |-> 0,
             dbLog |-> <<>>, cloudLog |-> <<>>]

\* testConnections, second loop: one `await cloudinary.api.ping()` attempt.
ProbeCloudinary(ok) ==
  /\ boot.pc = "cloud"
  /\ IF ok
     THEN /\ status' = [status EXCEPT !.cloudinary = TRUE]
          /\ boot' = [boot EXCEPT !.pc = "returning", !.cloudLog = Append(@, ok)]
     ELSE /\ status' = status
          /\ boot' = [boot EXCEPT !.cloudLog = Append(@, ok),
                                  !.cloudRetries = @ - 1,
                                  !.pc = IF boot.cloudRetries - 1 = 0
                                         THEN "returning" ELSE "cloud"]
  /\ UNCHANGED <<rev, users, login, products, history, cloud, nextId,
                 nextObj, req, prevDelete, served>>

\* The second loop is left: testConnections returns.
TestConnectionsReturns ==
  /\ boot.pc = "returning"
  /\ boot' = Returned
  /\ UNCHANGED <<rev, users, login, status, products, history, cloud, nextId,
                 nextObj, req, prevDelete,
                 served>>


\* ------------------------------------------------------ request admission
FreeSlots == {s \in Slots : req[s].pc = "idle"}
NewSlot   == CHOOSE s \in FreeSlots : \A t \in FreeSlots : s <= t

\* A request arrives and its handler starts as r.  Handlers that are in
\* flight are no longer alone.
Admit(r) ==
  /\ FreeSlots # {}
  /\ served < MaxOps
  /\ served' = served + 1
  /\ req' = [t \in Slots |->
               IF t = NewSlot
               THEN [r EXCEPT !.alone = \A u \in Slots : ~InFlight(req[u])]
               ELSE IF InFlight(req[t]) THEN [req[t] EXCEPT !.alone = FALSE]
               ELSE req[t]]

\* The connection of a finished request goes away.
Retire(s) ==
  /\ req[s].pc \in {"done", "hung"}
  /\ req' = [req EXCEPT ![s] = Idle]
  /\ UNCHANGED <<rev, users, login, status, boot, products, history, cloud,
                 nextId, nextObj, prevDelete,
                 served>>

RECURSIVE SumOver(_, _)
SumOver(S, f) ==
  IF S = {} THEN 0
  ELSE LET x == CHOOSE y \in S : TRUE IN f[x] + SumOver(S \ {x}, f)

\* Uploads a handler in flight may still make.
PlannedUploads(r) ==
  IF ~InFlight(r) THEN 0
  ELSE IF rev \in SingleImage
       THEN IF r.pc \in {"select", "upload"} /\ r.file THEN 1 ELSE 0
       ELSE IF r.pc = "select" THEN Len(Filter(r.images, TRUE))
            ELSE IF r.pc = "upload" /\ r.op = "create"
                 THEN Len(r.images) - r.i + 1
            ELSE IF r.pc = "upload" THEN Len(r.newImages) - r.i + 1
            ELSE 0

\* The stores hand out at most MaxId ids and MaxObj public ids.
CanInsert  == (nextId - SeedId - 1)
              + Cardinality({s \in Slots : req[s].op = "create" /\ InFlight(req[s])})
              < MaxId
CanUpload(k) == (nextObj - SeedObj - 1) + SumOver(Slots, [s \in Slots |-> PlannedUploads(req[s])]) + k
                <= MaxObj

Ids == SeedId..(SeedId + MaxId)

\* What a delete invocation leaves for the next one to see.
\* clean: it ran alone, found the row, was allowed to delete it, and none
\* of its store calls failed.
\* stopped: it ran alone, deleted every stored image of the row it found,
\* and ended without having deleted the row.
DeleteSummary(r) ==
  [id |-> r.id,
   status |-> IF r.resp = <<>> THEN 0 ELSE r.resp[1].status,
   clean |-> /\ r.alone
             /\ r.existing # <<>>
             /\ (rev = "part_002" =>
                   (r.existing[1].created_by = r.user.id \/ r.user.role = "admin"))
             /\ \A k \in 1..Len(r.log) : r.log[k].ok,
   stopped |-> /\ r.alone
               /\ r.existing # <<>>
               /\ \E k \in 1..Len(r.log) : r.log[k].call = "destroy"
               /\ \A k \in 1..Len(r.log) : r.log[k].call = "destroy" => r.log[k].ok
               /\ \E k \in 1..Len(r.log) : r.log[k] = Call("delete", r.id, FALSE)]

\* ----------------------------------------------- part_002: authentication
\* Mutation: the routes are guarded by optionalAuth, which lets every
\* request through.
AuthenticateToken_Optional(token) == 0

\* authenticateToken: 0 lets the request through to the handler.
AuthenticateToken(token) ==
  CASE token = "missing" -> 401
    [] token = "expired" -> 401
    [] token = "invalid" -> 403
    [] OTHER             -> 0

Auth(token) == IF rev = "part_002" THEN AuthenticateToken(token) ELSE 0

\* Which (token, user) pairs a request can carry.
Credentials ==
  IF rev = "part_002"
  THEN {<<t, NoUser>> : t \in Tokens \ {"valid"}} \cup {<<"valid", u>> : u \in Callers}
  ELSE {<<"valid", NoUser>>}

\* Mutation: the role comparison inverted.
Forbidden_RoleInverted(row, user) == row.created_by # user.id /\ user.role = "admin"

\* Mutation: only the creator may change a product.
Forbidden_OwnerOnly(row, user) == row.created_by # user.id

\* existing.created_by !== req.user.id && req.user.role !== 'admin'  -> 403
Forbidden(row, user) == row.created_by # user.id /\ user.role # "admin"

\* An awaited promise rejects inside a catch block of an async handler that
\* nothing wraps: the rejection is unhandled.  Express 4 sends no response;
\* Express 5 routes the rejection to its error handler, which answers 500
\* with that error.
UnhandledRejection(r, err) ==
  {[r EXCEPT !.pc = "hung"], Respond(r, 500, err, <<>>)}


\* The history after an INSERT made the row of id, after an UPDATE changed
\* the row of id, and after a DELETE for id was executed.
Born(id, row) == [history EXCEPT !.born = history.born @@ (id :> row)]
Touched(id) ==
  [history EXCEPT !.born = [k \in DOMAIN history.born \ {id} |-> history.born[k]]]
Gone(id) ==
  [history EXCEPT !.born = [k \in DOMAIN history.born \ {id} |-> history.born[k]],
                  !.gone = history.gone \cup {id}]

Others == <<rev, users, login, status, boot>>
Steady == <<rev, users, login, status, boot, served>>

\* ================================ single-image revisions: server, part_002

\* ---- POST /api/upload
\* The synchronous prefix: authenticateToken, then `if (!req.file)`.
StartCreateSingle(cred, file, name, price) ==
  LET r0 == [Idle EXCEPT !.op = "create", !.token = cred[1], !.user = cred[2],
                         !.file = file, !.name = name, !.price = price]
      r1 == IF Auth(cred[1]) # 0 THEN Respond(r0, Auth(cred[1]), "auth", <<>>)
            ELSE IF ~file THEN Respond(r0, 400, "No image file uploaded", <<>>)
            ELSE [r0 EXCEPT !.pc = "upload"]
  IN /\ rev \in SingleImage
     /\ r1.pc = "upload" => CanInsert /\ CanUpload(1)
     /\ Admit(r1)
     /\ prevDelete' = NoDelete
     /\ UNCHANGED <<Others, products, history, cloud, nextId, nextObj>>

\* Mutation: a failed upload is swallowed and the handler goes on to the
\* INSERT, with no image.
CreateUploadSingle_GoesOn(s, ok) ==
  LET r == req[s] IN
  /\ rev \in SingleImage /\ r.op = "create" /\ r.pc = "upload"
  /\ IF ok
     THEN /\ cloud' = cloud \cup {nextObj}
          /\ nextObj' = nextObj + 1
          /\ req' = [req EXCEPT ![s] =
                       [r EXCEPT !.pc = "insert", !.cloudinaryId = nextObj,
                                 !.imageUrl = Url(nextObj),
                                 !.log = Append(@, Call("upload", nextObj, TRUE))]]
     ELSE /\ UNCHANGED <<cloud, nextObj>>
          /\ req' = [req EXCEPT ![s] =
                       [r EXCEPT !.pc = "insert",
                                 !.log = Append(@, Call("upload", 0, FALSE))]]
  /\ UNCHANGED <<Steady, products, history, nextId, prevDelete>>

\* await upload_stream(...); cloudinaryId = cloudinaryResult.public_id
CreateUploadSingle(s, ok) ==
  LET r == req[s] IN
  /\ rev \in SingleImage /\ r.op = "create" /\ r.pc = "upload"
  /\ IF ok
     THEN /\ cloud' = cloud \cup {nextObj}
          /\ nextObj' = nextObj + 1
          /\ req' = [req EXCEPT ![s] =
                       [r EXCEPT !.pc = "insert", !.cloudinaryId = nextObj,
                                 !.imageUrl = Url(nextObj),
                                 !.log = Append(@, Call("upload", nextObj, TRUE))]]
     ELSE \* catch: cloudinaryId is still null, nothing to clean up
          /\ UNCHANGED <<cloud, nextObj>>
          /\ req' = [req EXCEPT ![s] =
                       Respond([r EXCEPT !.error = "upload_error",
                                         !.log = Append(@, Call("upload", 0, FALSE))],
                               500, "upload_error", <<>>)]
  /\ UNCHANGED <<Steady, products, history, nextId, prevDelete>>

\* The row of the INSERT's `values`.
CreateValuesSingle(r) ==
  [name |-> IF Truthy(r.name) THEN r.name ELSE "Untitled Product",
   price |-> IF Truthy(r.price) THEN ParseFloat(r.price) ELSE Num(0),
   image_url |-> r.imageUrl,
   cloudinary_id |-> r.cloudinaryId,
   created_by |-> IF rev = "part_002" THEN r.user.id ELSE 0]

\* await pool.query(INSERT ... RETURNING *); res.status(201)
CreateInsertSingle(s, ok) ==
  LET r == req[s] IN
  /\ rev \in SingleImage /\ r.op = "create" /\ r.pc = "insert"
  /\ IF ok
     THEN /\ products' = products @@ (nextId :> CreateValuesSingle(r))
          /\ history' = Born(nextId, CreateValuesSingle(r))
          /\ nextId' = nextId + 1
          /\ req' = [req EXCEPT ![s] =
                       Respond([r EXCEPT !.id = nextId,
                                         !.result = <<CreateValuesSingle(r)>>,
                                         !.log = Append(@, Call("insert", nextId, TRUE))],
                               201, "ok", <<CreateValuesSingle(r)>>)]
     ELSE \* catch: `if (cloudinaryId) await destroy(cloudinaryId)`
          /\ UNCHANGED <<products, history, nextId>>
          /\ req' = [req EXCEPT ![s] =
                       LET r1 == [r EXCEPT !.error = "insert_error",
                                           !.log = Append(@, Call("insert", 0, FALSE))]
                       IN IF r.cloudinaryId # 0 THEN [r1 EXCEPT !.pc = "cleanup"]
                          ELSE Respond(r1, 500, "insert_error", <<>>)]
  /\ UNCHANGED <<Steady, cloud, nextObj, prevDelete>>

\* The catch block's compensating destroy, then res.status(500) with the
\* error that was caught.  server.js awaits the destroy bare; part_002
\* appends .catch(...) to it.
CleanupSingle(s, ok, target) ==
  LET r  == req[s]
      r1 == [r EXCEPT !.log = Append(@, Call("destroy", target, ok))]
  IN /\ IF ok
        THEN /\ cloud' = cloud \ {target}
             /\ req' = [req EXCEPT ![s] = Respond(r1, 500, r.error, <<>>)]
        ELSE /\ cloud' = cloud
             /\ IF rev = "part_002"
                THEN req' = [req EXCEPT ![s] = Respond(r1, 500, r.error, <<>>)]
                ELSE \E r2 \in UnhandledRejection(r1, "cleanup_error") :
                       req' = [req EXCEPT ![s] = r2]
     /\ UNCHANGED <<Steady, products, history, nextId, nextObj, prevDelete>>

CreateCleanupSingle(s, ok) ==
  /\ rev \in SingleImage /\ req[s].op = "create" /\ req[s].pc = "cleanup"
  /\ CleanupSingle(s, ok, req[s].cloudinaryId)

\* ---- PUT /api/products/:id
StartUpdateSingle(cred, id, file, name, price) ==
  LET r0 == [Idle EXCEPT !.op = "update", !.token = cred[1], !.user = cred[2],
                         !.id = id, !.file = file, !.name = name, !.price = price]
      r1 == IF Auth(cred[1]) # 0 THEN Respond(r0, Auth(cred[1]), "auth", <<>>)
            ELSE [r0 EXCEPT !.pc = "select"]
  IN /\ rev \in SingleImage
     /\ (r1.pc = "select" /\ file) => CanUpload(1)
     /\ Admit(r1)
     /\ prevDelete' = NoDelete
     /\ UNCHANGED <<Others, products, history, cloud, nextId, nextObj>>

\* Mutation: the ownership check comes before the existence check; with no
\* row, created_by is undefined and differs from every caller's id.
UpdateSelectSingle_ChecksOwnerFirst(s, ok) ==
  LET r    == req[s]
      rows == IF r.id \in DOMAIN products THEN <<products[r.id]>> ELSE <<>>
      r1   == [r EXCEPT !.log = Append(@, Call("select", r.id, ok))]
  IN /\ rev \in SingleImage /\ r.op = "update" /\ r.pc = "select"
     /\ req' = [req EXCEPT ![s] =
          IF ~ok THEN Respond([r1 EXCEPT !.error = "select_error"], 500, "select_error", <<>>)
          ELSE IF rev = "part_002" /\ r.user.role # "admin"
                  /\ (rows = <<>> \/ Forbidden(rows[1], r.user))
               THEN Respond([r1 EXCEPT !.existing = rows], 403, "forbidden", <<>>)
          ELSE IF rows = <<>> THEN Respond(r1, 404, "Product not found", <<>>)
          ELSE [r1 EXCEPT !.existing = rows,
                          !.intact = rows[1].cloudinary_id \in cloud,
                          !.imageUrl = rows[1].image_url,
                          !.cloudinaryId = rows[1].cloudinary_id,
                          !.oldCloudinaryId = IF r.file THEN rows[1].cloudinary_id ELSE 0,
                          !.pc = IF r.file THEN "upload" ELSE "update"]]
     /\ UNCHANGED <<Steady, products, history, cloud, nextId, nextObj,
                    prevDelete>>

\* await pool.query(SELECT * ... WHERE id); 404; ownership check; locals
UpdateSelectSingle(s, ok) ==
  LET r    == req[s]
      rows == IF r.id \in DOMAIN products THEN <<products[r.id]>> ELSE <<>>
      r1   == [r EXCEPT !.log = Append(@, Call("select", r.id, ok))]
  IN /\ rev \in SingleImage /\ r.op = "update" /\ r.pc = "select"
     /\ req' = [req EXCEPT ![s] =
          IF ~ok THEN Respond([r1 EXCEPT !.error = "select_error"], 500, "select_error", <<>>)
          ELSE IF rows = <<>> THEN Respond(r1, 404, "Product not found", <<>>)
          ELSE IF rev = "part_002" /\ Forbidden(rows[1], r.user)
               THEN Respond([r1 EXCEPT !.existing = rows], 403, "forbidden", <<>>)
          ELSE [r1 EXCEPT !.existing = rows,
                          !.intact = rows[1].cloudinary_id \in cloud,
                          !.imageUrl = rows[1].image_url,
                          !.cloudinaryId = rows[1].cloudinary_id,
                          !.oldCloudinaryId = IF r.file THEN rows[1].cloudinary_id ELSE 0,
                          !.pc = IF r.file THEN "upload" ELSE "update"]]
     /\ UNCHANGED <<Steady, products, history, cloud, nextId, nextObj,
                    prevDelete>>

\* Mutation: a failed upload of the new image is swallowed and the handler
\* goes on to the UPDATE.
UpdateUploadSingle_GoesOn(s, ok) ==
  LET r == req[s] IN
  /\ rev \in SingleImage /\ r.op = "update" /\ r.pc = "upload"
  /\ IF ok
     THEN /\ cloud' = cloud \cup {nextObj}
          /\ nextObj' = nextObj + 1
          /\ req' = [req EXCEPT ![s] =
                       [r EXCEPT !.newCloudinaryId = nextObj,
                                 !.imageUrl = Url(nextObj),
                                 !.cloudinaryId = nextObj,
                                 !.pc = IF r.oldCloudinaryId # 0 THEN "destroyOld"
                                        ELSE "update",
                                 !.log = Append(@, Call("upload", nextObj, TRUE))]]
     ELSE /\ UNCHANGED <<cloud, nextObj>>
          /\ req' = [req EXCEPT ![s] =
                       [r EXCEPT !.pc = "update",
                                 !.log = Append(@, Call("upload", 0, FALSE))]]
  /\ UNCHANGED <<Steady, products, history, nextId, prevDelete>>

\* await upload_stream(...) of the new image
UpdateUploadSingle(s, ok) ==
  LET r == req[s] IN
  /\ rev \in SingleImage /\ r.op = "update" /\ r.pc = "upload"
  /\ IF ok
     THEN /\ cloud' = cloud \cup {nextObj}
          /\ nextObj' = nextObj + 1
          /\ req' = [req EXCEPT ![s] =
                       [r EXCEPT !.newCloudinaryId = nextObj,
                                 !.imageUrl = Url(nextObj),
                                 !.cloudinaryId = nextObj,
                                 !.pc = IF r.oldCloudinaryId # 0 THEN "destroyOld"
                                        ELSE "update",
                                 !.log = Append(@, Call("upload", nextObj, TRUE))]]
     ELSE /\ UNCHANGED <<cloud, nextObj>>
          /\ req' = [req EXCEPT ![s] =
                       Respond([r EXCEPT !.error = "upload_error",
                                         !.log = Append(@, Call("upload", 0, FALSE))],
                               500, "upload_error", <<>>)]
  /\ UNCHANGED <<Steady, products, history, nextId, prevDelete>>

\* `if (oldCloudinaryId) await destroy(oldCloudinaryId)`, before the UPDATE
UpdateDestroyOldSingle(s, ok) ==
  LET r  == req[s]
      r1 == [r EXCEPT !.log = Append(@, Call("destroy", r.oldCloudinaryId, ok))]
  IN /\ rev \in SingleImage /\ r.op = "update" /\ r.pc = "destroyOld"
     /\ cloud' = IF ok THEN cloud \ {r.oldCloudinaryId} ELSE cloud
     /\ req' = [req EXCEPT ![s] =
          IF ok \/ rev = "part_002" THEN [r1 EXCEPT !.pc = "update"]
          ELSE \* server.js: the rejection reaches the catch block
               IF r.newCloudinaryId # 0
               THEN [r1 EXCEPT !.error = "destroy_error", !.pc = "cleanup"]
               ELSE Respond([r1 EXCEPT !.error = "destroy_error"],
                            500, "destroy_error", <<>>)]
     /\ UNCHANGED <<Steady, products, history, nextId, nextObj, prevDelete>>

\* Mutation: the UPDATE writes the new cloudinary_id and leaves image_url
\* as it was.
UpdateValuesSingle_KeepsUrl(r, row) ==
  [row EXCEPT
     !.name  = IF Truthy(r.name) THEN r.name ELSE r.existing[1].name,
     !.price = IF Truthy(r.price) THEN ParseFloat(r.price) ELSE r.existing[1].price,
     !.cloudinary_id = r.cloudinaryId]

\* The row the UPDATE's `values` make of the current row.
UpdateValuesSingle(r, row) ==
  [row EXCEPT
     !.name  = IF Truthy(r.name) THEN r.name ELSE r.existing[1].name,
     !.price = IF Truthy(r.price) THEN ParseFloat(r.price) ELSE r.existing[1].price,
     !.image_url = r.imageUrl,
     !.cloudinary_id = r.cloudinaryId]

\* Mutation: the UPDATE is conditional on the row still being the one the
\* handler read, and a lost race is reported as a conflict.
UpdateWriteSingle_DetectsConflict(s, ok) ==
  LET r    == req[s]
      rows == IF r.id \in DOMAIN products
              THEN <<UpdateValuesSingle(r, products[r.id])>> ELSE <<>>
      r1   == [r EXCEPT !.log = Append(@, Call("update", r.id, ok))]
      stale == rows # <<>> /\ products[r.id] # r.existing[1]
  IN /\ rev \in SingleImage /\ r.op = "update" /\ r.pc = "update"
     /\ IF ok
        THEN /\ products' = IF rows = <<>> \/ stale THEN products
                            ELSE [products EXCEPT ![r.id] = rows[1]]
             /\ history' = IF rows = <<>> \/ stale THEN history ELSE Touched(r.id)
             /\ req' = [req EXCEPT ![s] =
                          IF stale THEN Respond(r1, 409, "conflict", <<>>)
                          ELSE Respond([r1 EXCEPT !.result = rows], 200, "ok", rows)]
        ELSE /\ UNCHANGED <<products, history>>
             /\ req' = [req EXCEPT ![s] =
                          LET r2 == [r1 EXCEPT !.error = "update_error"]
                          IN IF r.newCloudinaryId # 0 THEN [r2 EXCEPT !.pc = "cleanup"]
                             ELSE Respond(r2, 500, "update_error", <<>>)]
     /\ UNCHANGED <<Steady, cloud, nextId, nextObj, prevDelete>>

\* await pool.query(UPDATE ... WHERE id RETURNING *); res.status(200)
UpdateWriteSingle(s, ok) ==
  LET r    == req[s]
      rows == IF r.id \in DOMAIN products
              THEN <<UpdateValuesSingle(r, products[r.id])>> ELSE <<>>
      r1   == [r EXCEPT !.log = Append(@, Call("update", r.id, ok))]
  IN /\ rev \in SingleImage /\ r.op = "update" /\ r.pc = "update"
     /\ IF ok
        THEN /\ products' = IF rows = <<>> THEN products
                            ELSE [products EXCEPT ![r.id] = rows[1]]
             /\ history' = IF rows = <<>> THEN history ELSE Touched(r.id)
             /\ req' = [req EXCEPT ![s] =
                          Respond([r1 EXCEPT !.result = rows], 200, "ok", rows)]
        ELSE /\ UNCHANGED <<products, history>>
             /\ req' = [req EXCEPT ![s] =
                          LET r2 == [r1 EXCEPT !.error = "update_error"]
                          IN IF r.newCloudinaryId # 0 THEN [r2 EXCEPT !.pc = "cleanup"]
                             ELSE Respond(r2, 500, "update_error", <<>>)]
     /\ UNCHANGED <<Steady, cloud, nextId, nextObj, prevDelete>>

\* Rollback: `if (newCloudinaryId) await destroy(newCloudinaryId)`
UpdateCleanupSingle(s, ok) ==
  /\ rev \in SingleImage /\ req[s].op = "update" /\ req[s].pc = "cleanup"
  /\ CleanupSingle(s, ok, req[s].newCloudinaryId)

\* ---- DELETE /api/products/:id
StartDeleteSingle(cred, id) ==
  LET r0 == [Idle EXCEPT !.op = "delete", !.token = cred[1], !.user = cred[2],
                         !.id = id, !.prev = prevDelete]
      r1 == IF Auth(cred[1]) # 0 THEN Respond(r0, Auth(cred[1]), "auth", <<>>)
            ELSE [r0 EXCEPT !.pc = "select"]
  IN /\ rev \in SingleImage
     /\ Admit(r1)
     /\ prevDelete' = IF r1.pc = "done" THEN DeleteSummary(r1) ELSE prevDelete
     /\ UNCHANGED <<Others, products, history, cloud, nextId, nextObj>>

\* A step of a delete handler takes it to r2.
DeleteStep(s, r2) ==
  /\ req' = [req EXCEPT ![s] = r2]
  /\ prevDelete' = IF r2.pc = "done" THEN DeleteSummary(r2) ELSE prevDelete

\* await pool.query(SELECT ...); 404; ownership check
DeleteSelectSingle(s, ok) ==
  LET r    == req[s]
      rows == IF r.id \in DOMAIN products THEN <<products[r.id]>> ELSE <<>>
      r1   == [r EXCEPT !.log = Append(@, Call("select", r.id, ok))]
  IN /\ rev \in SingleImage /\ r.op = "delete" /\ r.pc = "select"
     /\ DeleteStep(s,
          IF ~ok THEN Respond(r1, 500, "Failed to delete product", <<>>)
          ELSE IF rows = <<>> THEN Respond(r1, 404, "Product not found", <<>>)
          ELSE IF rev = "part_002" /\ Forbidden(rows[1], r.user)
               THEN Respond([r1 EXCEPT !.existing = rows], 403, "forbidden", <<>>)
          ELSE [r1 EXCEPT !.existing = rows,
                          !.cloudinaryId = rows[1].cloudinary_id,
                          !.pc = IF rows[1].cloudinary_id # 0 THEN "destroy"
                                 ELSE "delete"])
     /\ UNCHANGED <<Steady, products, history, cloud, nextId, nextObj>>

\* `if (cloudinaryId) await destroy(cloudinaryId)`: bare in server.js,
\* with .catch(...) in part_002
DeleteDestroySingle(s, ok) ==
  LET r  == req[s]
      r1 == [r EXCEPT !.log = Append(@, Call("destroy", r.cloudinaryId, ok))]
  IN /\ rev \in SingleImage /\ r.op = "delete" /\ r.pc = "destroy"
     /\ cloud' = IF ok THEN cloud \ {r.cloudinaryId} ELSE cloud
     /\ DeleteStep(s,
          IF ok \/ rev = "part_002" THEN [r1 EXCEPT !.pc = "delete"]
          ELSE Respond(r1, 500, "Failed to delete product", <<>>))
     /\ UNCHANGED <<Steady, products, history, nextId, nextObj>>

\* Mutation: the DELETE matches no row.
RemoveRow_MatchesNothing(id) == products

\* DELETE FROM products WHERE id
RemoveRow(id) == [k \in DOMAIN products \ {id} |-> products[k]]

\* Mutation: the stored image is deleted once more after the DELETE.
DeleteRowSingle_DestroysAfter(s, ok) ==
  LET r  == req[s]
      r1 == [r EXCEPT !.log = @ \o <<Call("delete", r.id, ok),
                                     Call("destroy", r.cloudinaryId, TRUE)>>]
  IN /\ rev \in SingleImage /\ r.op = "delete" /\ r.pc = "delete"
     /\ products' = IF ok THEN RemoveRow(r.id) ELSE products
     /\ history' = IF ok THEN Gone(r.id) ELSE history
     /\ cloud' = cloud \ {r.cloudinaryId}
     /\ DeleteStep(s,
          IF ok THEN Respond(r1, 200, "Product deleted successfully", <<>>)
          ELSE Respond(r1, 500, "Failed to delete product", <<>>))
     /\ UNCHANGED <<Steady, nextId, nextObj>>

\* await pool.query(DELETE ...); res.status(200)
DeleteRowSingle(s, ok) ==
  LET r  == req[s]
      r1 == [r EXCEPT !.log = Append(@, Call("delete", r.id, ok))]
  IN /\ rev \in SingleImage /\ r.op = "delete" /\ r.pc = "delete"
     /\ products' = IF ok THEN RemoveRow(r.id) ELSE products
     /\ history' = IF ok THEN Gone(r.id) ELSE history
     /\ DeleteStep(s,
          IF ok THEN Respond(r1, 200, "Product deleted successfully", <<>>)
          ELSE Respond(r1, 500, "Failed to delete product", <<>>))
     /\ UNCHANGED <<Steady, cloud, nextId, nextObj>>


\* ================================ image-list revisions: part_001, part_000

\* The image lists a client sends: new payloads and URLs the service has
\* issued.
ImagePool  == {Data} \cup {Url(n) : n \in 1..(nextObj - 1)}
ImageLists == UNION {[1..n -> ImagePool] : n \in 0..MaxImgs}
\* A create sends payloads only.
PayloadLists == UNION {[1..n -> {Data}] : n \in 0..MaxImgs}

Presence == {Absent, "given"}

\* `images && images.length > 0`
HasImages(images) == Len(images) > 0

\* Mutation: the validation does not look at sku.
MissingRequired_SkuOptional(name, category, price, sku) ==
  ~Truthy(name) \/ ~Truthy(category) \/ price = Absent

\* `!name || !category || price === undefined || !sku`
MissingRequired(name, category, price, sku) ==
  ~Truthy(name) \/ ~Truthy(category) \/ price = Absent \/ ~Truthy(sku)

\* asyncHandler's catch(next) and the error handler: 500 with err.message
ErrorHandler(r, err) == Respond([r EXCEPT !.error = err], 500, err, <<>>)

\* ---- POST /api/products (part_001)
StartCreateMulti(name, category, price, sku, images) ==
  LET r0 == [Idle EXCEPT !.op = "create", !.name = name, !.category = category,
                         !.price = price, !.sku = sku, !.images = images]
      r1 == IF ~status.database THEN Respond(r0, 503, "Database not available", <<>>)
            ELSE IF ~status.cloudinary
                 THEN Respond(r0, 503, "Image service not available", <<>>)
            ELSE IF MissingRequired(name, category, price, sku)
                 THEN Respond(r0, 400, "Missing required fields", <<>>)
            ELSE IF HasImages(images) THEN [r0 EXCEPT !.pc = "upload", !.i = 1]
            ELSE [r0 EXCEPT !.pc = "insert"]
  IN /\ rev = "part_001"
     /\ InFlight(r1) => CanInsert /\ CanUpload(Len(images))
     /\ Admit(r1)
     /\ prevDelete' = NoDelete
     /\ UNCHANGED <<Others, products, history, cloud, nextId, nextObj>>

\* Mutation: the upload is awaited outside try/catch, so a failed upload
\* ends the create in the error handler.
CreateUploadMulti_Aborts(s, ok) ==
  LET r  == req[s]
      r0 == [r EXCEPT !.log = Append(@, Call("upload", IF ok THEN nextObj ELSE 0, ok))]
      r1 == [r0 EXCEPT !.cloudinaryUrls = Append(@, Url(nextObj)),
                       !.i = @ + 1,
                       !.pc = IF r.i + 1 > Len(r.images) THEN "insert" ELSE "upload"]
  IN /\ rev = "part_001" /\ r.op = "create" /\ r.pc = "upload"
     /\ cloud' = IF ok THEN cloud \cup {nextObj} ELSE cloud
     /\ nextObj' = IF ok THEN nextObj + 1 ELSE nextObj
     /\ req' = [req EXCEPT ![s] = IF ok THEN r1 ELSE ErrorHandler(r0, "upload_error")]
     /\ UNCHANGED <<Steady, products, history, nextId, prevDelete>>

\* One turn of the upload loop: await cloudinary.uploader.upload(images[i])
\* inside try/catch; a failure is logged and the loop goes on.
CreateUploadMulti(s, ok) ==
  LET r  == req[s]
      r1 == [r EXCEPT !.cloudinaryUrls = IF ok THEN Append(@, Url(nextObj)) ELSE @,
                      !.log = Append(@, Call("upload", IF ok THEN nextObj ELSE 0, ok)),
                      !.i = @ + 1,
                      !.pc = IF r.i + 1 > Len(r.images) THEN "insert" ELSE "upload"]
  IN /\ rev = "part_001" /\ r.op = "create" /\ r.pc = "upload"
     /\ cloud' = IF ok THEN cloud \cup {nextObj} ELSE cloud
     /\ nextObj' = IF ok THEN nextObj + 1 ELSE nextObj
     /\ req' = [req EXCEPT ![s] = r1]
     /\ UNCHANGED <<Steady, products, history, nextId, prevDelete>>

\* Mutation: the INSERT stores the request's payloads, not the uploads' URLs.
CreateValuesMulti_RawImages(r) ==
  [name |-> r.name, price |-> ParseFloat(r.price), sku |-> r.sku,
   images |-> r.images]

\* The row of the INSERT.
CreateValuesMulti(r) ==
  [name |-> r.name, price |-> ParseFloat(r.price), sku |-> r.sku,
   images |-> r.cloudinaryUrls]

\* `sku TEXT UNIQUE NOT NULL`: another row already holds this sku.
SkuTaken(sku) == \E k \in DOMAIN products : products[k].sku = sku

\* await sql INSERT ... RETURNING *; res.status(201).json(result[0])
CreateInsertMulti(s, ok) ==
  LET r == req[s] IN
  /\ rev = "part_001" /\ r.op = "create" /\ r.pc = "insert"
  /\ ok => ~SkuTaken(r.sku)
  /\ IF ok
     THEN /\ products' = products @@ (nextId :> CreateValuesMulti(r))
          /\ history' = Born(nextId, CreateValuesMulti(r))
          /\ nextId' = nextId + 1
          /\ req' = [req EXCEPT ![s] =
                       Respond([r EXCEPT !.id = nextId,
                                         !.result = <<CreateValuesMulti(r)>>,
                                         !.log = Append(@, Call("insert", nextId, TRUE))],
                               201, "ok", <<CreateValuesMulti(r)>>)]
     ELSE /\ UNCHANGED <<products, history, nextId>>
          /\ req' = [req EXCEPT ![s] =
                       ErrorHandler([r EXCEPT !.log = Append(@, Call("insert", 0, FALSE))],
                                    "insert_error")]
  /\ UNCHANGED <<Steady, cloud, nextObj, prevDelete>>

\* Mutation: the update route checks the database flag only.
StartUpdateMulti_NoImageServiceCheck(id, name, price, images) ==
  LET r0 == [Idle EXCEPT !.op = "update", !.id = id, !.name = name,
                         !.price = price, !.images = images]
      r1 == IF ~status.database THEN Respond(r0, 503, "Database not available", <<>>)
            ELSE [r0 EXCEPT !.pc = "select"]
  IN /\ rev \in MultiImage
     /\ InFlight(r1) => CanUpload(Len(Filter(images, TRUE)))
     /\ Admit(r1)
     /\ prevDelete' = NoDelete
     /\ UNCHANGED <<Others, products, history, cloud, nextId, nextObj>>

\* ---- PUT /api/products/:id (part_001, part_000)
StartUpdateMulti(id, name, price, images) ==
  LET r0 == [Idle EXCEPT !.op = "update", !.id = id, !.name = name,
                         !.price = price, !.images = images]
      r1 == IF ~status.database THEN Respond(r0, 503, "Database not available", <<>>)
            ELSE IF rev = "part_000" /\ ~status.cloudinary
                 THEN Respond(r0, 503, "Image service not available", <<>>)
            ELSE [r0 EXCEPT !.pc = "select"]
  IN /\ rev \in MultiImage
     /\ InFlight(r1) => CanUpload(Len(Filter(images, TRUE)))
     /\ Admit(r1)
     /\ prevDelete' = NoDelete
     /\ UNCHANGED <<Others, products, history, cloud, nextId, nextObj>>

\* Mutation: the new payloads are uploaded whatever the image-service flag
\* says.
UpdateSelectMulti_IgnoresFlag(s, ok) ==
  LET r    == req[s]
      rows == IF r.id \in DOMAIN products THEN <<products[r.id]>> ELSE <<>>
      r1   == [r EXCEPT !.log = Append(@, Call("select", r.id, ok))]
      newImages    == Filter(r.images, TRUE)
      existingUrls == Filter(r.images, FALSE)
      uploads == HasImages(r.images) /\ Len(newImages) > 0
  IN /\ rev \in MultiImage /\ r.op = "update" /\ r.pc = "select"
     /\ req' = [req EXCEPT ![s] =
          IF ~ok THEN ErrorHandler(r1, "select_error")
          ELSE IF rows = <<>> THEN Respond(r1, 404, "Product not found", <<>>)
          ELSE [r1 EXCEPT !.existing = rows,
                          !.cloudinaryUrls = IF HasImages(r.images) THEN existingUrls
                                             ELSE rows[1].images,
                          !.newImages = IF HasImages(r.images) THEN newImages ELSE <<>>,
                          !.i = IF uploads THEN 1 ELSE 0,
                          !.pc = IF uploads THEN "upload" ELSE "update"]]
     /\ UNCHANGED <<Steady, products, history, cloud, nextId, nextObj,
                    prevDelete>>

\* await sql SELECT; 404; then the image handling up to the first upload
UpdateSelectMulti(s, ok) ==
  LET r    == req[s]
      rows == IF r.id \in DOMAIN products THEN <<products[r.id]>> ELSE <<>>
      r1   == [r EXCEPT !.log = Append(@, Call("select", r.id, ok))]
      newImages    == Filter(r.images, TRUE)
      existingUrls == Filter(r.images, FALSE)
      uploads == /\ HasImages(r.images)
                 /\ Len(newImages) > 0
                 /\ (rev = "part_001" => status.cloudinary)
  IN /\ rev \in MultiImage /\ r.op = "update" /\ r.pc = "select"
     /\ req' = [req EXCEPT ![s] =
          IF ~ok THEN ErrorHandler(r1, "select_error")
          ELSE IF rows = <<>> THEN Respond(r1, 404, "Product not found", <<>>)
          ELSE [r1 EXCEPT !.existing = rows,
                          !.cloudinaryUrls = IF HasImages(r.images) THEN existingUrls
                                             ELSE rows[1].images,
                          !.newImages = IF HasImages(r.images) THEN newImages ELSE <<>>,
                          !.i = IF uploads THEN 1 ELSE 0,
                          !.pc = IF uploads THEN "upload" ELSE "update"]]
     /\ UNCHANGED <<Steady, products, history, cloud, nextId, nextObj,
                    prevDelete>>

\* One turn of the upload loop over newImages
UpdateUploadMulti(s, ok) ==
  LET r  == req[s]
      r1 == [r EXCEPT !.cloudinaryUrls = IF ok THEN Append(@, Url(nextObj)) ELSE @,
                      !.log = Append(@, Call("upload", IF ok THEN nextObj ELSE 0, ok)),
                      !.i = @ + 1,
                      !.pc = IF r.i + 1 > Len(r.newImages) THEN "update" ELSE "upload"]
  IN /\ rev \in MultiImage /\ r.op = "update" /\ r.pc = "upload"
     /\ cloud' = IF ok THEN cloud \cup {nextObj} ELSE cloud
     /\ nextObj' = IF ok THEN nextObj + 1 ELSE nextObj
     /\ req' = [req EXCEPT ![s] = r1]
     /\ UNCHANGED <<Steady, products, history, nextId, prevDelete>>

\* Mutation: the UPDATE leaves the images column out.
UpdateValuesMulti_KeepsImages(r, row) ==
  [row EXCEPT !.name = r.name, !.price = ParseFloat(r.price)]

\* The row the UPDATE makes of the current row.
UpdateValuesMulti(r, row) ==
  [row EXCEPT !.name = r.name, !.price = ParseFloat(r.price),
              !.images = r.cloudinaryUrls]

\* The UPDATE violates `name TEXT NOT NULL` when the request has no name.
UpdateViolatesNotNull(r) == r.name = Absent

\* Mutation: a successful UPDATE also reclaims the stored objects of the
\* images it drops from the record.
UpdateWriteMulti_Reclaims(s, ok) ==
  LET r    == req[s]
      rows == IF r.id \in DOMAIN products
              THEN <<UpdateValuesMulti(r, products[r.id])>> ELSE <<>>
      r1   == [r EXCEPT !.log = Append(@, Call("update", r.id, ok))]
      dropped == IF rows = <<>> THEN {}
                 ELSE {PublicIdOf(u) : u \in Range(products[r.id].images)
                                            \ Range(r.cloudinaryUrls)}
  IN /\ rev \in MultiImage /\ r.op = "update" /\ r.pc = "update"
     /\ ok => (rows = <<>> \/ ~UpdateViolatesNotNull(r))
     /\ IF ok
        THEN /\ products' = IF rows = <<>> THEN products
                            ELSE [products EXCEPT ![r.id] = rows[1]]
             /\ history' = IF rows = <<>> THEN history ELSE Touched(r.id)
             /\ cloud' = cloud \ dropped
             /\ req' = [req EXCEPT ![s] =
                          Respond([r1 EXCEPT !.result = rows], 200, "ok",
                                  IF rev = "part_001" THEN rows ELSE <<>>)]
        ELSE /\ UNCHANGED <<products, history>>
             /\ cloud' = cloud
             /\ req' = [req EXCEPT ![s] = ErrorHandler(r1, "update_error")]
     /\ UNCHANGED <<Steady, nextId, nextObj, prevDelete>>

\* await sql UPDATE ... RETURNING *; res.json(...)
UpdateWriteMulti(s, ok) ==
  LET r    == req[s]
      rows == IF r.id \in DOMAIN products
              THEN <<UpdateValuesMulti(r, products[r.id])>> ELSE <<>>
      r1   == [r EXCEPT !.log = Append(@, Call("update", r.id, ok))]
  IN /\ rev \in MultiImage /\ r.op = "update" /\ r.pc = "update"
     /\ ok => (rows = <<>> \/ ~UpdateViolatesNotNull(r))
     /\ IF ok
        THEN /\ products' = IF rows = <<>> THEN products
                            ELSE [products EXCEPT ![r.id] = rows[1]]
             /\ history' = IF rows = <<>> THEN history ELSE Touched(r.id)
             /\ req' = [req EXCEPT ![s] =
                          Respond([r1 EXCEPT !.result = rows], 200, "ok",
                                  IF rev = "part_001" THEN rows ELSE <<>>)]
        ELSE /\ UNCHANGED <<products, history>>
             /\ req' = [req EXCEPT ![s] = ErrorHandler(r1, "update_error")]
     /\ UNCHANGED <<Steady, cloud, nextId, nextObj, prevDelete>>

\* ---- DELETE /api/products/:id (part_001)
StartDeleteMulti(id) ==
  LET r0 == [Idle EXCEPT !.op = "delete", !.id = id, !.prev = prevDelete]
      r1 == IF ~status.database THEN Respond(r0, 503, "Database not available", <<>>)
            ELSE [r0 EXCEPT !.pc = "select"]
  IN /\ rev = "part_001"
     /\ Admit(r1)
     /\ prevDelete' = IF r1.pc = "done" THEN DeleteSummary(r1) ELSE prevDelete
     /\ UNCHANGED <<Others, products, history, cloud, nextId, nextObj>>

\* await sql SELECT; 404; `images && images.length > 0 && status.cloudinary`
DeleteSelectMulti(s, ok) ==
  LET r    == req[s]
      rows == IF r.id \in DOMAIN products THEN <<products[r.id]>> ELSE <<>>
      r1   == [r EXCEPT !.log = Append(@, Call("select", r.id, ok))]
  IN /\ rev = "part_001" /\ r.op = "delete" /\ r.pc = "select"
     /\ DeleteStep(s,
          IF ~ok THEN ErrorHandler(r1, "select_error")
          ELSE IF rows = <<>> THEN Respond(r1, 404, "Product not found", <<>>)
          ELSE IF HasImages(rows[1].images) /\ status.cloudinary
               THEN [r1 EXCEPT !.existing = rows, !.i = 1, !.pc = "destroy"]
          ELSE [r1 EXCEPT !.existing = rows, !.pc = "delete"])
     /\ UNCHANGED <<Steady, products, history, cloud, nextId, nextObj>>

\* One turn of the loop over product[0].images: await destroy(publicId)
\* inside try/catch
DeleteDestroyMulti(s, ok) ==
  LET r        == req[s]
      imageUrl == r.existing[1].images[r.i]
      publicId == PublicIdOf(imageUrl)
      r1 == [r EXCEPT !.log = Append(@, Call("destroy", publicId, ok)),
                      !.i = @ + 1,
                      !.pc = IF r.i + 1 > Len(r.existing[1].images) THEN "delete"
                             ELSE "destroy"]
  IN /\ rev = "part_001" /\ r.op = "delete" /\ r.pc = "destroy"
     /\ cloud' = IF ok THEN cloud \ {publicId} ELSE cloud
     /\ DeleteStep(s, r1)
     /\ UNCHANGED <<Steady, products, history, nextId, nextObj>>

\* await sql DELETE; res.json({message})
DeleteRowMulti(s, ok) ==
  LET r  == req[s]
      r1 == [r EXCEPT !.log = Append(@, Call("delete", r.id, ok))]
  IN /\ rev = "part_001" /\ r.op = "delete" /\ r.pc = "delete"
     /\ products' = IF ok THEN RemoveRow(r.id) ELSE products
     /\ history' = IF ok THEN Gone(r.id) ELSE history
     /\ DeleteStep(s,
          IF ok THEN Respond(r1, 200, "Product deleted successfully", <<>>)
          ELSE ErrorHandler(r1, "delete_error"))
     /\ UNCHANGED <<Steady, cloud, nextId, nextObj>>

\* ================================================= GET /api/products/:id
StartGet(id) ==
  LET r0 == [Idle EXCEPT !.op = "get", !.id = id]
      r1 == IF rev = "part_001" /\ ~status.database
            THEN Respond(r0, 503, "Database not available", <<>>)
            ELSE [r0 EXCEPT !.pc = "select"]
  IN /\ rev # "part_000"
     /\ Admit(r1)
     /\ prevDelete' = NoDelete
     /\ UNCHANGED <<Others, products, history, cloud, nextId, nextObj>>

\* Mutation: a handler whose query fails marks the database as unavailable.
GetSelect_MarksDatabaseDown(s, ok) ==
  LET r    == req[s]
      rows == IF r.id \in DOMAIN products THEN <<products[r.id]>> ELSE <<>>
      r1   == [r EXCEPT !.log = Append(@, Call("select", r.id, ok))]
  IN /\ r.op = "get" /\ r.pc = "select"
     /\ req' = [req EXCEPT ![s] =
          IF ~ok THEN Respond(r1, 500, "Failed to fetch product", <<>>)
          ELSE IF rows = <<>> THEN Respond(r1, 404, "Product not found", <<>>)
          ELSE Respond([r1 EXCEPT !.existing = rows], 200, "ok", rows)]
     /\ status' = IF ok THEN status ELSE [status EXCEPT !.database = FALSE]
     /\ UNCHANGED <<rev, users, login, boot, served, products, history,
                    cloud, nextId, nextObj, prevDelete>>

\* Mutation: the route does not check that the query returned a row.
GetSelect_NoRowCheck(s, ok) ==
  LET r    == req[s]
      rows == IF r.id \in DOMAIN products THEN <<products[r.id]>> ELSE <<>>
      r1   == [r EXCEPT !.log = Append(@, Call("select", r.id, ok))]
  IN /\ r.op = "get" /\ r.pc = "select"
     /\ req' = [req EXCEPT ![s] =
          IF ~ok THEN Respond(r1, 500, "Failed to fetch product", <<>>)
          ELSE Respond([r1 EXCEPT !.existing = rows], 200, "ok", rows)]
     /\ UNCHANGED <<Steady, products, history, cloud, nextId, nextObj,
                    prevDelete>>

\* await SELECT * ... WHERE id; 404 or the row
GetSelect(s, ok) ==
  LET r    == req[s]
      rows == IF r.id \in DOMAIN products THEN <<products[r.id]>> ELSE <<>>
      r1   == [r EXCEPT !.log = Append(@, Call("select", r.id, ok))]
  IN /\ r.op = "get" /\ r.pc = "select"
     /\ req' = [req EXCEPT ![s] =
          IF ~ok THEN Respond(r1, 500, "Failed to fetch product", <<>>)
          ELSE IF rows = <<>> THEN Respond(r1, 404, "Product not found", <<>>)
          ELSE Respond([r1 EXCEPT !.existing = rows], 200, "ok", rows)]
     /\ UNCHANGED <<Steady, products, history, cloud, nextId, nextObj,
                    prevDelete>>

\* ===================================================== GET /api/products
\* SELECT * FROM products ORDER BY created_at DESC: the rows, newest first.
RowsNewestFirst ==
  LET D == DOMAIN products IN
  [k \in 1..Cardinality(D) |->
     products[CHOOSE i \in D : Cardinality({j \in D : j > i}) = k - 1]]

StartList ==
  LET r0 == [Idle EXCEPT !.op = "list"]
      r1 == IF rev = "part_001" /\ ~status.database
            THEN Respond(r0, 503, "Database not available", <<>>)
            ELSE [r0 EXCEPT !.pc = "select"]
  IN /\ rev # "part_000"
     /\ Admit(r1)
     /\ prevDelete' = NoDelete
     /\ UNCHANGED <<Others, products, history, cloud, nextId, nextObj>>

\* Mutation: the statement that lists the rows removes them as well
\* (DELETE ... RETURNING * in place of SELECT *).
ListSelect_RemovesRows(s, ok) ==
  LET r  == req[s]
      r1 == [r EXCEPT !.log = Append(@, Call("select", 0, ok))]
  IN /\ r.op = "list" /\ r.pc = "select"
     /\ req' = [req EXCEPT ![s] =
          IF ~ok THEN Respond(r1, 500, "Failed to fetch products", <<>>)
          ELSE Respond(r1, 200, "ok", RowsNewestFirst)]
     /\ products' = IF ok THEN <<>> ELSE products
     /\ UNCHANGED <<Steady, history, cloud, nextId, nextObj, prevDelete>>

\* await SELECT * ... ORDER BY created_at DESC; the rows, or 500
ListSelect(s, ok) ==
  LET r  == req[s]
      r1 == [r EXCEPT !.log = Append(@, Call("select", 0, ok))]
  IN /\ r.op = "list" /\ r.pc = "select"
     /\ req' = [req EXCEPT ![s] =
          IF ~ok THEN Respond(r1, 500, "Failed to fetch products", <<>>)
          ELSE Respond(r1, 200, "ok", RowsNewestFirst)]
     /\ UNCHANGED <<Steady, products, history, cloud, nextId, nextObj,
                    prevDelete>>

\* ================================ POST /api/auth/google (server, part_002)
\* What a verified Google ID token carries: sub, email, name, picture.
GoogleIds == {"g1", "g2"}
Emails    == {"e1", "e2"}
FullNames == {"Ann", "Bea"}
Avatars   == {"pic1", "pic2"}

\* SELECT * FROM users WHERE google_id = $1 OR email = $2: the ids matched
Matches(google_id, email) ==
  {k \in DOMAIN users : users[k].google_id = google_id \/ users[k].email = email}

\* res.status(code).json(...) of the login handler; user is the id of the
\* row the response and the JWT are made from (0: none).
LoginRespond(h, code, user) ==
  [h EXCEPT !.pc = "done", !.resp = Append(@, [status |-> code, user |-> user])]

\* The login answered 200 for row k: the identity's first row is remembered.
LoggedIn(h, k) ==
  [login EXCEPT
     !.h = LoginRespond(h, 200, k),
     !.first = IF <<h.google_id, h.email>> \in DOMAIN login.first THEN @
               ELSE @ @@ (<<h.google_id, h.email>> :> k)]

LoginOthers == <<rev, status, boot, products, history, cloud, nextId, nextObj,
                 req, prevDelete, served>>

\* The synchronous prefix: `if (!token)` -> 400
StartLogin(token, google_id, email, full_name, avatar_url) ==
  LET h == [NoLogin EXCEPT !.token = token, !.google_id = google_id,
                           !.email = email, !.full_name = full_name,
                           !.avatar_url = avatar_url]
  IN /\ rev \in SingleImage
     /\ login.h.pc = "idle"
     /\ login.n < MaxLogins
     /\ login' = [login EXCEPT
                    !.n = @ + 1,
                    !.h = IF ~token THEN LoginRespond(h, 400, 0)
                          ELSE [h EXCEPT !.pc = "verify"]]
     /\ UNCHANGED <<LoginOthers, users>>

\* await googleClient.verifyIdToken(...): part_002 answers a rejection with
\* 401, in server.js it reaches the handler's catch (500).
LoginVerify(ok) ==
  LET h  == login.h
      h1 == [h EXCEPT !.log = Append(@, Call("verify", 0, ok))]
  IN /\ h.pc = "verify"
     /\ login' = [login EXCEPT
                    !.h = IF ok THEN [h1 EXCEPT !.pc = "select"]
                          ELSE LoginRespond(h1, IF rev = "part_002" THEN 401 ELSE 500, 0)]
     /\ UNCHANGED <<LoginOthers, users>>

\* await pool.query(SELECT ... WHERE google_id OR email).  The query has no
\* ORDER BY: user.rows[0] is any of the rows matched.  server.js answers
\* with the row found; part_002 goes on to refresh it.
LoginSelect(ok) ==
  LET h  == login.h
      h1 == [h EXCEPT !.log = Append(@, Call("select", 0, ok))]
      m  == Matches(h.google_id, h.email)
  IN /\ h.pc = "select"
     /\ IF ~ok THEN login' = [login EXCEPT !.h = LoginRespond(h1, 500, 0)]
        ELSE IF m = {} THEN login' = [login EXCEPT !.h = [h1 EXCEPT !.pc = "insert"]]
        ELSE \E k \in m :
               login' = IF rev = "part_002"
                        THEN [login EXCEPT !.h = [h1 EXCEPT !.found = k, !.pc = "update"]]
                        ELSE LoggedIn([h1 EXCEPT !.found = k], k)
     /\ UNCHANGED <<LoginOthers, users>>

\* await pool.query(INSERT INTO users ... RETURNING *): google_id and email
\* are UNIQUE; role takes its default.
LoginInsert(ok) ==
  LET h   == login.h
      k   == Len(users) + 1
      row == [google_id |-> h.google_id, email |-> h.email,
              full_name |-> h.full_name, avatar_url |-> h.avatar_url,
              role |-> "customer"]
  IN /\ h.pc = "insert"
     /\ ok => Matches(h.google_id, h.email) = {}
     /\ IF ok
        THEN /\ users' = Append(users, row)
             /\ login' = LoggedIn([h EXCEPT !.found = k,
                                            !.log = Append(@, Call("insert", k, TRUE))], k)
        ELSE /\ users' = users
             /\ login' = [login EXCEPT !.h =
                            LoginRespond([h EXCEPT !.log = Append(@, Call("insert", 0, FALSE))],
                                         500, 0)]
     /\ UNCHANGED LoginOthers

\* part_002: await pool.query(UPDATE users SET full_name, avatar_url,
\* google_id ... WHERE id = user.rows[0].id RETURNING *)
LoginUpdate(ok) ==
  LET h  == login.h
      h1 == [h EXCEPT !.log = Append(@, Call("update", h.found, ok))]
  IN /\ h.pc = "update"
     /\ ok => \A k \in DOMAIN users \ {h.found} : users[k].google_id # h.google_id
     /\ IF ok
        THEN /\ users' = [users EXCEPT ![h.found] =
                            [@ EXCEPT !.full_name = h.full_name,
                                      !.avatar_url = h.avatar_url,
                                      !.google_id = h.google_id]]
             /\ login' = LoggedIn(h1, h.found)
        ELSE /\ users' = users
             /\ login' = [login EXCEPT !.h = LoginRespond(h1, 500, 0)]
     /\ UNCHANGED LoginOthers

\* The connection of a finished login goes away.
LoginRetire ==
  /\ login.h.pc = "done"
  /\ login' = [login EXCEPT !.h = NoLogin]
  /\ UNCHANGED <<LoginOthers, users>>

\* Logins, served one after the other.
NextLogin ==
  \/ \E token \in BOOLEAN, google_id \in GoogleIds, email \in Emails,
        full_name \in FullNames, avatar_url \in Avatars :
       StartLogin(token, google_id, email, full_name, avatar_url)
  \/ \E ok \in BOOLEAN : LoginVerify(ok)
  \/ \E ok \in BOOLEAN : LoginSelect(ok)
  \/ \E ok \in BOOLEAN : LoginInsert(ok)
  \/ \E ok \in BOOLEAN : LoginUpdate(ok)
  \/ LoginRetire

SpecLogin == Init /\ [][NextLogin]_vars

\* ==================================================== the whole service
\* A finished handler leaves before anything else happens: its connection
\* closing commutes with every other step.
Settled == \A s \in Slots : req[s].pc \notin {"done", "hung"}

\* testConnections runs beside the request handlers.
Startup ==
  \/ \E ok \in BOOLEAN : ProbeDatabase(ok)
  \/ \E ok \in BOOLEAN : ProbeCloudinary(ok)
  \/ TestConnectionsReturns

\* A request arrives.
Arrive ==
  \/ \E cred \in Credentials, file \in BOOLEAN, name \in Names, price \in PriceInputs :
       StartCreateSingle(cred, file, name, price)
  \/ \E cred \in Credentials, id \in Ids, file \in BOOLEAN, name \in Names,
        price \in PriceInputs : StartUpdateSingle(cred, id, file, name, price)
  \/ \E cred \in Credentials, id \in Ids : StartDeleteSingle(cred, id)
  \/ \E name \in Names, category \in Presence, price \in PriceInputs,
        sku \in Skus, images \in PayloadLists :
       StartCreateMulti(name, category, price, sku, images)
  \/ \E id \in Ids, name \in Names, price \in PriceInputs, images \in ImageLists :
       StartUpdateMulti(id, name, price, images)
  \/ \E id \in Ids : StartDeleteMulti(id)
  \/ \E id \in Ids : StartGet(id)
  \/ StartList

\* A handler resumes from an awaited store call.
Resume ==
  \/ \E s \in Slots, ok \in BOOLEAN : CreateUploadSingle(s, ok)
  \/ \E s \in Slots, ok \in BOOLEAN : CreateInsertSingle(s, ok)
  \/ \E s \in Slots, ok \in BOOLEAN : CreateCleanupSingle(s, ok)
  \/ \E s \in Slots, ok \in BOOLEAN : UpdateSelectSingle(s, ok)
  \/ \E s \in Slots, ok \in BOOLEAN : UpdateUploadSingle(s, ok)
  \/ \E s \in Slots, ok \in BOOLEAN : UpdateDestroyOldSingle(s, ok)
  \/ \E s \in Slots, ok \in BOOLEAN : UpdateWriteSingle(s, ok)
  \/ \E s \in Slots, ok \in BOOLEAN : UpdateCleanupSingle(s, ok)
  \/ \E s \in Slots, ok \in BOOLEAN : DeleteSelectSingle(s, ok)
  \/ \E s \in Slots, ok \in BOOLEAN : DeleteDestroySingle(s, ok)
  \/ \E s \in Slots, ok \in BOOLEAN : DeleteRowSingle(s, ok)
  \/ \E s \in Slots, ok \in BOOLEAN : CreateUploadMulti(s, ok)
  \/ \E s \in Slots, ok \in BOOLEAN : CreateInsertMulti(s, ok)
  \/ \E s \in Slots, ok \in BOOLEAN : UpdateSelectMulti(s, ok)
  \/ \E s \in Slots, ok \in BOOLEAN : UpdateUploadMulti(s, ok)
  \/ \E s \in Slots, ok \in BOOLEAN : UpdateWriteMulti(s, ok)
  \/ \E s \in Slots, ok \in BOOLEAN : DeleteSelectMulti(s, ok)
  \/ \E s \in Slots, ok \in BOOLEAN : DeleteDestroyMulti(s, ok)
  \/ \E s \in Slots, ok \in BOOLEAN : DeleteRowMulti(s, ok)
  \/ \E s \in Slots, ok \in BOOLEAN : GetSelect(s, ok)
  \/ \E s \in Slots, ok \in BOOLEAN : ListSelect(s, ok)

Leave == \E s \in Slots : Retire(s)

\* No handler is in flight.
Quiet == \A s \in Slots : ~InFlight(req[s])

\* testConnections has returned.
Started == boot.pc = "done"

\* The service receives at most MaxOps requests.
Open == served < MaxOps

\* Requests that arrive once startup is over, served one after the other.
Next ==
  \/ Leave
  \/ Settled /\ Startup
  \/ Settled /\ Started /\ Quiet /\ Open /\ Arrive
  \/ Settled /\ Resume

Spec == Init /\ [][Next]_vars

\* Requests that arrive once startup is over, served as they arrive, up to
\* MaxReq of them in flight together.
NextConcurrent ==
  \/ Leave
  \/ Settled /\ Startup
  \/ Settled /\ Started /\ Open /\ Arrive
  \/ Settled /\ Resume

SpecConcurrent == Init /\ [][NextConcurrent]_vars

\* Requests that arrive while testConnections is still running (initialize()
\* is not awaited before app.listen), served one after the other.
NextStartup ==
  \/ Leave
  \/ Settled /\ Startup
  \/ Settled /\ Quiet /\ Open /\ Arrive
  \/ Settled /\ Resume

SpecStartup == Init /\ [][NextStartup]_vars

\* Every awaited probe settles (it resolves, rejects or times out) and the
\* 2 s pause between attempts ends, so testConnections keeps taking steps.
SpecLive == Spec /\ WF_vars(Settled /\ Startup)


\* ================================================================ claims
Finished(r) == r.pc \in {"done", "hung"}
Status(r)   == IF r.resp = <<>> THEN 0 ELSE r.resp[1].status

\* The calls of one kind a handler made, in order.
CallsOf(r, c)  == SelectSeq(r.log, LAMBDA e : e.call = c)
\* The public ids its successful uploads returned, in order.
Uploaded(r)    == [k \in 1..Len(SelectSeq(r.log, LAMBDA e : e.call = "upload" /\ e.ok))
                    |-> SelectSeq(r.log, LAMBDA e : e.call = "upload" /\ e.ok)[k].arg]
UploadedUrls(r) == [k \in 1..Len(Uploaded(r)) |-> Url(Uploaded(r)[k])]
\* The public ids it asked the object store to delete, in order.
Destroyed(r)   == [k \in 1..Len(CallsOf(r, "destroy")) |-> CallsOf(r, "destroy")[k].arg]
Failed(r, c)   == \E k \in 1..Len(r.log) : r.log[k].call = c /\ ~r.log[k].ok
Succeeded(r, c) == \E k \in 1..Len(r.log) : r.log[k].call = c /\ r.log[k].ok
Writes(r)      == SelectSeq(r.log, LAMBDA e : e.call \in {"insert", "update", "delete"})
\* The caller of the auth-enabled revision is neither the owner nor an admin.
Stranger(r)    == r.existing[1].created_by # r.user.id /\ r.user.role # "admin"

\* C1: in every create, in every revision, when the INSERT fails after K
\* uploads of the invocation succeeded, exactly K object-store deletes are
\* attempted, one for each public id the invocation uploaded, before the
\* failure is reported.
C1_CompensatesEveryUpload ==
  \A s \in Slots :
    LET r == req[s] IN
    (r.op = "create" /\ Finished(r) /\ Failed(r, "insert"))
      => Destroyed(r) = Uploaded(r)

\* C2: in the single-image update, when the new image was uploaded and the
\* UPDATE then fails, the new image is deleted and the product's original
\* stored image still exists, so the unchanged row references an existing
\* image.
C2_OriginalSurvivesFailedUpdate ==
  \A s \in Slots :
    LET r == req[s] IN
    (/\ rev \in SingleImage /\ r.op = "update" /\ r.pc = "done"
     /\ r.alone /\ r.intact
     /\ Succeeded(r, "upload") /\ Failed(r, "update")
     /\ \A k \in 1..Len(r.log) : r.log[k].call = "destroy" => r.log[k].ok)
      => /\ r.newCloudinaryId \notin cloud
         /\ r.existing[1].cloudinary_id \in cloud
         /\ products[r.id] = r.existing[1]

\* C3: in every delete of an existing product, in every revision, a failed
\* object-store delete does not block the record deletion: the DELETE is
\* still executed, and (when it succeeds) the row is gone and the caller
\* gets the success confirmation.
C3_DestroyFailureDoesNotBlockDelete ==
  \A s \in Slots :
    LET r == req[s] IN
    (r.op = "delete" /\ Finished(r) /\ r.alone /\ Failed(r, "destroy"))
      => /\ Len(CallsOf(r, "delete")) = 1
         /\ Succeeded(r, "delete") => (Status(r) = 200 /\ r.id \notin DOMAIN products)

\* C4: in part_002, an update or delete of an existing product by an
\* authenticated caller who is neither its owner nor an admin returns 403,
\* leaves the row unchanged and calls neither upload nor destroy.
C4_StrangerIsForbidden ==
  \A s \in Slots :
    LET r == req[s] IN
    (/\ rev = "part_002" /\ r.op \in {"update", "delete"} /\ Finished(r)
     /\ r.token = "valid" /\ r.existing # <<>> /\ Stranger(r))
      => /\ Status(r) = 403
         /\ Len(r.resp) = 1
         /\ CallsOf(r, "upload") = <<>> /\ CallsOf(r, "destroy") = <<>>
         /\ Writes(r) = <<>>
         /\ r.alone => (r.id \in DOMAIN products /\ products[r.id] = r.existing[1])

C4_Witness ==
  \E s \in Slots :
    LET r == req[s] IN
    /\ rev = "part_002" /\ r.op \in {"update", "delete"} /\ Finished(r)
    /\ r.token = "valid" /\ r.existing # <<>> /\ Stranger(r)
    /\ r.file /\ Truthy(r.name)
    /\ Status(r) = 403

\* C5: in the single-image revisions, when the compensating object-store
\* delete of a create or an update itself fails, the error is swallowed:
\* the invocation ends with exactly one failure response, and that response
\* reports the original error, not the cleanup error.
C5_CleanupFailureIsSwallowed ==
  \A s \in Slots :
    LET r == req[s]
        target == IF r.op = "create" THEN r.cloudinaryId ELSE r.newCloudinaryId
    IN (/\ rev \in SingleImage /\ r.op \in {"create", "update"} /\ Finished(r)
        /\ target # 0
        /\ \E k \in 1..Len(r.log) :
             r.log[k] = Call("destroy", target, FALSE))
         => /\ Len(r.resp) = 1
            /\ r.resp[1].status = 500
            /\ r.resp[1].msg = r.error
            /\ r.resp[1].msg # "cleanup_error"

\* C6: in the image-list update, for every incoming list, the empty one
\* included, a URL that was in the persisted images before the update and
\* is not in the incoming list is not in the persisted images after a
\* successful update.
C6_OmittedUrlIsDropped ==
  \A s \in Slots :
    LET r == req[s] IN
    (/\ rev \in MultiImage /\ r.op = "update" /\ Finished(r)
     /\ Status(r) = 200 /\ r.result # <<>>)
      => \A u \in Range(r.existing[1].images) :
           u \notin Range(r.images) => u \notin Range(r.result[1].images)

\* C7: after a successful image-list update with a non-empty list, the
\* persisted images are the incoming existing-URL entries, verbatim and in
\* their incoming order, followed by the URLs the successful uploads of the
\* new payloads returned, in their incoming order.
C7_KeptThenUploaded ==
  \A s \in Slots :
    LET r == req[s] IN
    (/\ rev \in MultiImage /\ r.op = "update" /\ Finished(r)
     /\ Status(r) = 200 /\ r.result # <<>> /\ Len(r.images) > 0)
      => /\ r.result[1].images = Filter(r.images, FALSE) \o UploadedUrls(r)
         /\ Len(CallsOf(r, "upload")) <= Len(Filter(r.images, TRUE))
         /\ r.alone => products[r.id].images = r.result[1].images

C7_Witness ==
  \E s \in Slots :
    LET r == req[s] IN
    /\ rev \in MultiImage /\ r.op = "update" /\ Finished(r)
    /\ Status(r) = 200 /\ r.result # <<>>
    /\ Len(r.images) = 2 /\ StartsWithData(r.images[1]) /\ ~StartsWithData(r.images[2])
    /\ Len(Uploaded(r)) = 1
    /\ r.result[1].images = <<r.images[2], Url(Uploaded(r)[1])>>

\* C8: for every successful part_001 create with N payloads, the returned
\* and the persisted images are exactly the URLs of the uploads that
\* succeeded, in payload order: as many as succeeded, never more than N.
C8_ImagesAreTheSuccessfulUploads ==
  \A s \in Slots :
    LET r == req[s] IN
    (rev = "part_001" /\ r.op = "create" /\ Finished(r) /\ Status(r) = 201)
      => /\ r.resp[1].product # <<>>
         /\ r.resp[1].product[1].images = UploadedUrls(r)
         /\ Len(r.resp[1].product[1].images) <= Len(r.images)
         /\ Range(r.resp[1].product[1].images) \subseteq {Url(n) : n \in cloud \cup Range(Uploaded(r))}
         /\ r.alone => (r.id \in DOMAIN products
                        /\ products[r.id].images = UploadedUrls(r))

C8_Witness ==
  \E s \in Slots :
    LET r == req[s] IN
    /\ rev = "part_001" /\ r.op = "create" /\ Finished(r) /\ Status(r) = 201
    /\ Len(r.images) = 2
    /\ Failed(r, "upload") /\ Succeeded(r, "upload")
    /\ Len(products[r.id].images) = 1

\* C9: in the part_001 create, once validation has passed, the INSERT is
\* attempted exactly once whichever uploads fail, all of them included; and
\* when every upload fails and the INSERT succeeds, the product is created
\* with no images and 201 is returned.
PassedValidation(r) ==
  /\ Truthy(r.name) /\ Truthy(r.category) /\ r.price # Absent /\ Truthy(r.sku)
  /\ Status(r) # 503

C9_UploadFailuresDoNotAbortCreate ==
  \A s \in Slots :
    LET r == req[s] IN
    (rev = "part_001" /\ r.op = "create" /\ Finished(r) /\ PassedValidation(r))
      => /\ Len(CallsOf(r, "insert")) = 1
         /\ Len(CallsOf(r, "upload")) = Len(r.images)
         /\ (~Succeeded(r, "upload") /\ Succeeded(r, "insert"))
              => /\ Status(r) = 201
                 /\ r.resp[1].product[1].images = <<>>
                 /\ r.alone => products[r.id].images = <<>>

C9_Witness ==
  \E s \in Slots :
    LET r == req[s] IN
    /\ rev = "part_001" /\ r.op = "create" /\ Finished(r) /\ PassedValidation(r)
    /\ Len(r.images) = 2 /\ Len(CallsOf(r, "upload")) = 2
    /\ ~Succeeded(r, "upload") /\ Succeeded(r, "insert")
    /\ Status(r) = 201 /\ products[r.id].images = <<>>

\* C10: with no other invocation in flight and no store call failing, of
\* two successive deletes of the same existing product the first returns
\* the success confirmation and the second returns 404, with no
\* object-store delete and no record-store write.
C10_SecondDeleteIsNotFound ==
  \A s \in Slots :
    LET r == req[s] IN
    (/\ r.op = "delete" /\ Finished(r) /\ r.alone
     /\ r.prev.id = r.id /\ r.prev.clean
     /\ r.token = "valid"
     /\ \A k \in 1..Len(r.log) : r.log[k].ok)
      => /\ r.prev.status = 200
         /\ Len(r.resp) = 1 /\ Status(r) = 404
         /\ CallsOf(r, "destroy") = <<>>
         /\ Writes(r) = <<>>

C10_Witness ==
  \E s \in Slots :
    LET r == req[s] IN
    /\ r.op = "delete" /\ Finished(r) /\ r.alone
    /\ r.prev.id = r.id /\ r.prev.clean /\ r.prev.status = 200
    /\ Status(r) = 404

\* C11: in a successful update, in every revision, a structured field the
\* request omits keeps the value the persisted record had before the update.
C11_OmittedFieldIsKept ==
  \A s \in Slots :
    LET r == req[s] IN
    (/\ r.op = "update" /\ Finished(r) /\ r.alone
     /\ Status(r) = 200 /\ r.existing # <<>> /\ r.id \in DOMAIN products)
      => /\ r.name = Absent => products[r.id].name = r.existing[1].name
         /\ r.price = Absent => products[r.id].price = r.existing[1].price

\* The services are up and every store call the handler made succeeded.
Smooth(r) ==
  /\ status.database /\ status.cloudinary
  /\ r.token = "valid"
  /\ \A k \in 1..Len(r.log) : r.log[k].ok

\* C12: in create, in every revision, a request whose price is absent or
\* unparsable is never rejected for that reason, and the product is
\* persisted with price 0.
C12_AbsentPriceDefaultsToZero ==
  \A s \in Slots :
    LET r == req[s] IN
    (/\ r.op = "create" /\ Finished(r) /\ r.alone /\ Smooth(r)
     /\ ParseFloat(r.price) = NaN
     /\ rev \in SingleImage => r.file
     /\ rev \in MultiImage =>
          (Truthy(r.name) /\ Truthy(r.category) /\ Truthy(r.sku)))
      => /\ Status(r) = 201
         /\ r.id \in DOMAIN products
         /\ products[r.id].price = Num(0)

\* C13: after any sequence of creates and updates, with any price inputs,
\* negative ones included, every persisted product has price >= 0.
C13_PersistedPriceIsNonNegative ==
  \A k \in DOMAIN products :
    ~products[k].price.nan => products[k].price.v >= 0

\* C14: in part_001, a create whose sku is the sku of another persisted
\* product is answered with 409, not 500, and leaves the record store
\* unchanged.
C14_DuplicateSkuIsConflict ==
  \A s \in Slots :
    LET r == req[s] IN
    (/\ rev = "part_001" /\ r.op = "create" /\ Finished(r) /\ r.alone
     /\ Failed(r, "insert") /\ SkuTaken(r.sku))
      => /\ Status(r) = 409
         /\ Writes(r) = CallsOf(r, "insert")

\* C15: in the single-image update the prior stored image is deleted only
\* after the new upload has succeeded; when the new upload fails, no UPDATE
\* is attempted, no object-store delete is issued, the old image still
\* exists, the row is unchanged and the operation fails.
C15_OldImageOutlivesFailedUpload ==
  \A s \in Slots :
    LET r == req[s] IN
    (rev \in SingleImage /\ r.op = "update")
      => /\ \A k \in 1..Len(r.log) :
              r.log[k].call = "destroy"
                => \E j \in 1..(k - 1) : r.log[j].call = "upload" /\ r.log[j].ok
         /\ (Finished(r) /\ Failed(r, "upload"))
              => /\ CallsOf(r, "update") = <<>>
                 /\ CallsOf(r, "destroy") = <<>>
                 /\ Len(r.resp) = 1 /\ Status(r) = 500
                 /\ r.alone
                      => /\ r.intact => r.existing[1].cloudinary_id \in cloud
                         /\ products[r.id] = r.existing[1]

C15_Witness ==
  \E s \in Slots :
    LET r == req[s] IN
    /\ rev \in SingleImage /\ r.op = "update" /\ Finished(r)
    /\ Failed(r, "upload") /\ r.intact
    /\ Status(r) = 500 /\ r.existing[1].cloudinary_id \in cloud

\* C16: the image-list update never calls object-store delete: in every
\* invocation, successful or failed, every object that was in the object
\* store before a step of the update is still there after it, the objects
\* of images dropped from the record included.
UpdateInFlight == \E s \in Slots : req[s].op = "update" /\ InFlight(req[s])

C16_UpdateNeverDeletesObjects ==
  /\ [](\A s \in Slots :
          (rev \in MultiImage /\ req[s].op = "update")
            => CallsOf(req[s], "destroy") = <<>>)
  /\ [][(rev \in MultiImage /\ UpdateInFlight) => cloud \subseteq cloud']_vars

C16_Witness ==
  \E s \in Slots :
    LET r == req[s] IN
    /\ rev \in MultiImage /\ r.op = "update" /\ Finished(r) /\ Status(r) = 200
    /\ r.existing # <<>> /\ r.id \in DOMAIN products
    /\ \E u \in Range(r.existing[1].images) :
         u \notin Range(products[r.id].images) /\ PublicIdOf(u) \in cloud

\* C17: when two updates of the same product interleave at their awaited
\* store calls, neither is rejected or reported as a conflict: an update
\* that found the row, was allowed to change it and had no store call fail
\* returns success whatever ran beside it, and each UPDATE that executes
\* leaves the row holding the values that invocation wrote, so the
\* persisted values are those of the UPDATE that executed last.
Unhindered(r) ==
  /\ r.op = "update" /\ r.existing # <<>>
  /\ rev = "part_002" => ~Stranger(r)
  /\ \A k \in 1..Len(r.log) : r.log[k].ok

C17_LastUpdateWins ==
  /\ [](\A s \in Slots :
          (Finished(req[s]) /\ Unhindered(req[s]))
            => (Len(req[s].resp) = 1 /\ Status(req[s]) = 200))
  /\ [][\A s \in Slots :
          (/\ req[s].op = "update" /\ req[s].pc = "update"
           /\ Succeeded(req'[s], "update")
           /\ req[s].id \in DOMAIN products)
            => /\ req'[s].result # <<>>
               /\ products'[req[s].id] = req'[s].result[1]]_vars

C17_Witness ==
  \E s, t \in Slots :
    LET a == req[s]
        b == req[t]
    IN /\ s # t /\ a.id = b.id /\ a.id \in DOMAIN products
       /\ Finished(a) /\ Unhindered(a) /\ Status(a) = 200 /\ ~a.alone
       /\ products[a.id] = a.result[1]
       /\ b.op = "update" /\ b.pc = "update" /\ b.existing # <<>>
       /\ b.existing[1] # products[b.id]
       /\ b.name # a.name

\* C18: in part_001, while status.database is false every product route
\* (list, get, create, update, delete) returns 503 and makes no store call;
\* create also returns 503 with no store call while status.cloudinary is
\* false; in part_000 the update returns 503 with no store call while
\* either flag is false.
Refused(r) == Finished(r) /\ Len(r.resp) = 1 /\ Status(r) = 503 /\ r.log = <<>>

C18_UnavailableMeans503 ==
  \A s \in Slots :
    LET r == req[s] IN
    r.op # "none"
      => /\ (rev = "part_001" /\ ~status.database) => Refused(r)
         /\ (rev = "part_001" /\ r.op = "create" /\ ~status.cloudinary) => Refused(r)
         /\ (rev = "part_000" /\ ~(status.database /\ status.cloudinary)) => Refused(r)

C18_Witness ==
  \E s \in Slots :
    LET r == req[s] IN
    /\ rev = "part_001" /\ r.op = "create"
    /\ status.database /\ ~status.cloudinary
    /\ ~MissingRequired(r.name, r.category, r.price, r.sku) /\ Len(r.images) > 0
    /\ Refused(r)

\* C19: testConnections terminates for every sequence of probe outcomes;
\* for each dependency it makes at least 1 and at most 3 attempts, stops at
\* the first success, and sets the dependency's flag to true if and only if
\* an attempt succeeded; and no create, update or delete issues a store
\* call again after it failed: each makes at most one call per query and
\* at most one per image it has to upload or delete.
ProbedOnce(log, flag) ==
  /\ Len(log) \in 1..Retries
  /\ \A k \in 1..(Len(log) - 1) : ~log[k]
  /\ flag <=> log[Len(log)]
  /\ ~flag => Len(log) = Retries

NoRetry(r) ==
  /\ \A c \in {"select", "insert", "update", "delete"} : Len(CallsOf(r, c)) <= 1
  /\ Len(CallsOf(r, "upload"))
       <= IF rev \in SingleImage THEN 1
          ELSE IF r.op = "create" THEN Len(r.images)
          ELSE Len(Filter(r.images, TRUE))
  /\ IF rev \in SingleImage
     THEN \A j, k \in 1..Len(Destroyed(r)) : j # k => Destroyed(r)[j] # Destroyed(r)[k]
     ELSE Len(Destroyed(r))
            <= IF r.op = "delete" /\ r.existing # <<>>
               THEN Len(r.existing[1].images) ELSE 0

C19_ProbesAreBoundedNothingElseRetries ==
  /\ <>(boot.pc = "done")
  /\ [](boot.pc = "returning"
          => /\ ProbedOnce(boot.dbLog, status.database)
             /\ ProbedOnce(boot.cloudLog, status.cloudinary))
  /\ [](\A s \in Slots :
          req[s].op \in {"create", "update", "delete"} => NoRetry(req[s]))

C19_Witness ==
  /\ boot.pc = "returning"
  /\ boot.dbLog = <<FALSE, TRUE>> /\ status.database
  /\ boot.cloudLog = <<FALSE, FALSE, FALSE>> /\ ~status.cloudinary

\* C20: in part_001 and part_000 no request handler writes the status
\* flags: a flag changes only in a step of testConnections, only from
\* false to true, hence at most once; once testConnections has terminated
\* the flags never change, so a dependency whose three attempts all failed
\* stays reported as unavailable.
C20_FlagsAreWrittenOnlyAtStartup ==
  /\ [][status' # status
         => /\ boot.pc \in {"db", "cloud"}
            /\ req' = req
            /\ status.database => status'.database
            /\ status.cloudinary => status'.cloudinary]_vars
  /\ [][boot.pc = "done" => (boot' = boot /\ status' = status)]_vars

C20_Witness ==
  /\ rev \in MultiImage /\ boot.pc = "done"
  /\ status.database /\ ~status.cloudinary
  /\ \E s \in Slots :
       /\ req[s].op \in {"create", "update"} /\ Finished(req[s])
       /\ Status(req[s]) = 503

\* C21: with no other invocation in flight, a GET whose query succeeds
\* answers with the persisted row of its id, and with 404 when there is
\* none: after a successful create every GET by the returned id returns the
\* record the create returned (which is the persisted one) until an UPDATE
\* or a DELETE of that id is executed, and once a DELETE of the id was
\* executed every GET by that id returns 404.
C21_GetFollowsCreateAndDelete ==
  \A s \in Slots :
    LET r == req[s] IN
    (r.op = "get" /\ Finished(r) /\ r.alone /\ Succeeded(r, "select"))
      => /\ Len(r.resp) = 1
         /\ r.id \in DOMAIN products
              => (Status(r) = 200 /\ r.resp[1].product = <<products[r.id]>>)
         /\ r.id \notin DOMAIN products => Status(r) = 404
         /\ r.id \in DOMAIN history.born
              => (Status(r) = 200 /\ r.resp[1].product = <<history.born[r.id]>>)
         /\ r.id \in history.gone => Status(r) = 404

C21_Witness ==
  \E s \in Slots :
    LET r == req[s] IN
    /\ r.op = "get" /\ Finished(r) /\ r.alone /\ Succeeded(r, "select")
    /\ r.id \in DOMAIN history.born
    /\ Status(r) = 200 /\ r.resp[1].product = <<history.born[r.id]>>

\* C22: in every delete invocation every object-store delete call comes
\* before the record-store DELETE; and when a delete invocation has deleted
\* the stored images and ended without deleting the row, the next delete
\* call on the same id (by a caller allowed to delete it, with no call
\* failing: deleting the missing image does not throw) still finds the row,
\* removes it and returns success.
C22_ImagesBeforeRowAndRetryCompletes ==
  \A s \in Slots :
    LET r == req[s] IN
    r.op = "delete"
      => /\ \A j, k \in 1..Len(r.log) :
              (r.log[j].call = "destroy" /\ r.log[k].call = "delete") => j < k
         /\ (/\ Finished(r) /\ r.alone /\ r.token = "valid"
             /\ r.prev.id = r.id /\ r.prev.stopped
             /\ (rev = "part_002" /\ r.existing # <<>>) => ~Stranger(r)
             /\ \A k \in 1..Len(r.log) : r.log[k].ok)
              => /\ r.existing # <<>>
                 /\ Len(r.resp) = 1 /\ Status(r) = 200
                 /\ Succeeded(r, "delete")
                 /\ r.id \notin DOMAIN products

C22_Witness ==
  \E s \in Slots :
    LET r == req[s] IN
    /\ r.op = "delete" /\ Finished(r) /\ r.alone
    /\ r.prev.id = r.id /\ r.prev.stopped /\ r.prev.status = 500
    /\ r.existing # <<>> /\ Len(Destroyed(r)) > 0
    /\ \A k \in 1..Len(Destroyed(r)) : Destroyed(r)[k] \notin cloud
    /\ Status(r) = 200 /\ r.id \notin DOMAIN products

\* C23: in the part_001 delete of an existing product, whatever the
\* service-health flags are, exactly one object-store delete is attempted
\* for each URL of the product's persisted images, before the row is deleted.
C23_EveryImageIsReclaimed ==
  \A s \in Slots :
    LET r == req[s] IN
    (/\ rev = "part_001" /\ r.op = "delete" /\ r.existing # <<>>
     /\ Len(CallsOf(r, "delete")) > 0)
      => Destroyed(r) = [k \in 1..Len(r.existing[1].images)
                           |-> PublicIdOf(r.existing[1].images[k])]

\* C24: in the single-image revisions, whatever creates, updates and
\* deletes have run, succeeded or failed, every persisted row has an
\* image_url and a cloudinary_id, and the two are the secure_url and the
\* public_id that one upload call returned.
C24_RowHasImageOfOneUpload ==
  rev \in SingleImage
    => \A k \in DOMAIN products :
         /\ products[k].cloudinary_id # 0
         /\ products[k].image_url # Url(0)
         /\ products[k].image_url = Url(products[k].cloudinary_id)

C24_Witness ==
  \E s \in Slots :
    LET r == req[s] IN
    /\ rev \in SingleImage /\ r.op = "update" /\ Finished(r) /\ Status(r) = 200
    /\ r.newCloudinaryId # 0 /\ r.id \in DOMAIN products
    /\ products[r.id].cloudinary_id = r.newCloudinaryId
    /\ products[r.id].image_url = Url(r.newCloudinaryId)
    /\ products[r.id].cloudinary_id # r.existing[1].cloudinary_id

\* C25: in part_002, after any sequence of successful federated logins
\* there is exactly one user row for each identity that has logged in, the
\* row its google_id or its email matches; a login that matches no row
\* inserts one, every later login of an identity refreshes full_name,
\* avatar_url and google_id of the row the identity was first given and
\* inserts none; no step changes the role or the email of a row, and no
\* step removes a row.
C25_OneUserRowPerIdentity ==
  /\ [](rev = "part_002"
         => \A i \in DOMAIN login.first : Cardinality(Matches(i[1], i[2])) = 1)
  /\ [][(/\ rev = "part_002" /\ login.h.pc # "done" /\ login'.h.pc = "done"
         /\ login'.h.resp[1].status = 200)
        => LET h == login.h
               i == <<h.google_id, h.email>>
               k == login'.h.resp[1].user
           IN /\ Matches(h.google_id, h.email) = {}
                   => (Len(users') = Len(users) + 1 /\ k = Len(users'))
              /\ Matches(h.google_id, h.email) # {} => Len(users') = Len(users)
              /\ i \in DOMAIN login.first => k = login.first[i]
              /\ users'[k].full_name = h.full_name
              /\ users'[k].avatar_url = h.avatar_url
              /\ users'[k].google_id = h.google_id]_vars
  /\ [][/\ Len(users') >= Len(users)
        /\ \A k \in DOMAIN users :
             users'[k].role = users[k].role /\ users'[k].email = users[k].email]_vars

\* C26: a create that fails validation (part_001: name, category, price or
\* sku missing; single-image revisions: no image file) makes no store call,
\* neither an upload nor a write, and, the request having got as far as the
\* validation, is answered 400.
FailsValidation(r) ==
  IF rev \in SingleImage THEN ~r.file
  ELSE ~Truthy(r.name) \/ ~Truthy(r.category) \/ r.price = Absent \/ ~Truthy(r.sku)

C26_FailedValidationHasNoSideEffect ==
  \A s \in Slots :
    LET r == req[s] IN
    (r.op = "create" /\ FailsValidation(r))
      => /\ r.log = <<>>
         /\ Finished(r) /\ Len(r.resp) = 1
         /\ (status.database /\ status.cloudinary /\ r.token = "valid")
              => Status(r) = 400

C26_Witness ==
  \E s \in Slots :
    LET r == req[s] IN
    /\ rev = "part_001" /\ r.op = "create"
    /\ Truthy(r.name) /\ Truthy(r.category) /\ r.price # Absent /\ r.sku = Absent
    /\ Len(r.images) = 2
    /\ Status(r) = 400 /\ r.log = <<>> /\ cloud = {} /\ products = <<>>

\* C27: in part_002 the created_by of a created product is the id of the
\* authenticated caller that created it, and an update or delete of an
\* existing product by its creator, or by a caller whose token carries
\* role admin, is never answered 403.
C27_CreatorAndAdminMayMutate ==
  \A s \in Slots :
    LET r == req[s] IN
    (rev = "part_002" /\ r.token = "valid")
      => /\ (r.op = "create" /\ Finished(r) /\ Status(r) = 201)
              => /\ r.resp[1].product[1].created_by = r.user.id
                 /\ history.born[r.id].created_by = r.user.id
                 /\ r.alone => products[r.id].created_by = r.user.id
         /\ (/\ r.op \in {"update", "delete"} /\ r.existing # <<>>
             /\ (r.existing[1].created_by = r.user.id \/ r.user.role = "admin"))
              => Status(r) # 403

C27_Witness ==
  \E s \in Slots :
    LET r == req[s] IN
    /\ rev = "part_002" /\ r.token = "valid"
    /\ r.op \in {"update", "delete"} /\ Finished(r) /\ r.id # SeedId
    /\ r.existing # <<>> /\ r.existing[1].created_by = r.user.id
    /\ r.user.role = "customer"
    /\ Status(r) = 200

\* C28: in the image-list update, when the UPDATE fails after N new
\* payloads were uploaded, none of the N images the invocation uploaded
\* remains in the object store, and the row is unchanged.
C28_FailedUpdateLeavesNoOrphan ==
  \A s \in Slots :
    LET r == req[s] IN
    (/\ rev \in MultiImage /\ r.op = "update" /\ Finished(r) /\ r.alone
     /\ Failed(r, "update"))
      => /\ \A n \in Range(Uploaded(r)) : n \notin cloud
         /\ products[r.id] = r.existing[1]

\* C29: an update reports success only if a row with its id exists when
\* its UPDATE executes: when a concurrent delete has removed the row
\* between the update's SELECT and its UPDATE, so that the UPDATE matches no
\* row, the update does not answer with success and no image it uploaded
\* is left in the object store.
C29_UpdateOfDeletedRowDoesNotSucceed ==
  \A s \in Slots :
    LET r == req[s] IN
    (/\ r.op = "update" /\ Finished(r)
     /\ Succeeded(r, "update") /\ r.result = <<>>)
      => /\ Status(r) # 200
         /\ \A n \in Range(Uploaded(r)) : n \notin cloud

\* C30: in the single-image revisions, when updates of one product that
\* each upload a new image interleave and each returns success, then once
\* the last of them has completed (no object-store delete having failed)
\* the object store holds exactly one of the images uploaded for that
\* product, the one the row's cloudinary_id references: of the image the
\* last update read, the image the row referenced just before its UPDATE
\* and the image it uploaded itself, only the referenced one is left.
C30_InterleavedUpdatesLeaveOneImage ==
  [][\A s \in Slots :
       LET r == req[s] IN
       (/\ rev \in SingleImage /\ r.op = "update" /\ r.pc = "update"
        /\ ~r.alone /\ r.newCloudinaryId # 0
        /\ \A k \in 1..Len(r.log) : r.log[k].ok
        /\ r.id \in DOMAIN products
        /\ req'[s].pc = "done" /\ Status(req'[s]) = 200
        /\ \A t \in Slots \ {s} : ~InFlight(req[t]))
         => cloud' \cap {r.oldCloudinaryId, products[r.id].cloudinary_id,
                         r.newCloudinaryId}
              = {products'[r.id].cloudinary_id}]_vars

\* A step in which the delete handler of slot s answers with the success
\* confirmation.
DeleteConfirms(s) ==
  /\ req[s].op = "delete" /\ InFlight(req[s])
  /\ req'[s].pc = "done" /\ Status(req'[s]) = 200

\* A step in which the delete handler of slot s calls the object store's
\* delete.
DeleteDestroys(s) ==
  /\ req[s].op = "delete" /\ req[s].pc = "destroy"
  /\ Len(Destroyed(req'[s])) = Len(Destroyed(req[s])) + 1

\* C31: of the delete invocations on one id of an existing product,
\* however they interleave, at most one returns the success confirmation
\* (an invocation confirms only if no DELETE was executed for the id
\* before), and the object store's delete is called at most once for each
\* stored image of the product (an invocation calls it for an image only
\* if no other invocation in flight on that id has called it for that
\* image).
C31_OneDeleteConfirmsImagesDestroyedOnce ==
  [][\A s \in Slots :
       /\ DeleteConfirms(s) => req[s].id \notin history.gone
       /\ DeleteDestroys(s) =>
            \A t \in Slots \ {s} :
              (req[t].op = "delete" /\ req[t].id = req[s].id)
                => Destroyed(req'[s])[Len(Destroyed(req'[s]))]
                     \notin Range(Destroyed(req[t]))]_vars

\* A step in which the update or delete handler of slot s gets the result
\* of its SELECT while the record store holds no row for its id.
SelectsMissingRow(s) ==
  /\ req[s].op \in {"update", "delete"} /\ req[s].pc = "select"
  /\ req[s].id \notin DOMAIN products
  /\ req'[s].log = Append(req[s].log, Call("select", req[s].id, TRUE))

\* C32: update and delete on an id that has no persisted row return 404
\* with no object-store call and no record-store write: the handler ends
\* at its SELECT with 404 and both stores are as they were.  In the
\* auth-enabled revision this is so for every authenticated caller: the
\* existence check precedes the ownership check, so the answer is 404 and
\* not 403.
C32_MissingRowIsNotFound ==
  [][\A s \in Slots :
       SelectsMissingRow(s)
         => /\ req'[s].pc = "done"
            /\ Status(req'[s]) = 404
            /\ req'[s].log = <<Call("select", req[s].id, TRUE)>>
            /\ products' = products /\ cloud' = cloud]_vars

\* An authenticated customer's delete, and nothing else of it than the
\* SELECT, was answered 404 for an id that has no row.
C32_Witness ==
  \E s \in Slots :
    LET r == req[s] IN
    /\ rev = "part_002" /\ r.op = "delete" /\ Finished(r)
    /\ r.token = "valid" /\ r.user.role = "customer"
    /\ r.id \notin DOMAIN products /\ r.id \notin history.gone
    /\ r.log = <<Call("select", r.id, TRUE)>>
    /\ Status(r) = 404

\* An update of part_001 that carried new image payloads while the
\* image-service flag was false has ended; it found the row and neither of
\* its record-store calls failed.
PayloadsWithoutImageService(r) ==
  /\ rev = "part_001" /\ r.op = "update" /\ Finished(r)
  /\ ~status.cloudinary
  /\ Filter(r.images, TRUE) # <<>>
  /\ r.existing # <<>>
  /\ ~Failed(r, "select") /\ ~Failed(r, "update")

\* C33: in the update of part_001, when the request carries new image
\* payloads while status.cloudinary is false, no upload is attempted, the
\* update still returns success, and the persisted images are exactly the
\* existing-URL entries of the incoming list, in their order: every new
\* payload is dropped and no error is reported.
C33_PayloadsDroppedWithoutImageService ==
  \A s \in Slots :
    LET r == req[s] IN
    PayloadsWithoutImageService(r)
      => /\ CallsOf(r, "upload") = <<>>
         /\ Status(r) = 200 /\ r.error = ""
         /\ products[r.id].images = Filter(r.images, FALSE)
         /\ r.resp[1].product = <<products[r.id]>>

\* Such an update, whose list carried a payload and the URL of the stored
\* image, was answered 200 and left the row with that URL alone.
C33_Witness ==
  \E s \in Slots :
    LET r == req[s] IN
    /\ PayloadsWithoutImageService(r)
    /\ Filter(r.images, FALSE) = <<Url(SeedObj)>>
    /\ Len(r.images) = 2
    /\ Status(r) = 200
    /\ products[r.id].images = <<Url(SeedObj)>>
    /\ cloud = {SeedObj} /\ nextObj = SeedObj + 1

\* The handler of a single-image create, entered after authentication.
CreateSingleHandler(r) ==
  rev \in SingleImage /\ r.op = "create" /\ Auth(r.token) = 0

\* C34: in the single-image create, a row is inserted only after exactly
\* one upload of that invocation succeeded: an INSERT is attempted only as
\* the call that follows the invocation's one upload, which succeeded, and
\* the inserted row carries that upload's public id.  A request with no
\* image file returns 400 and a failed upload returns 500, and in both
\* cases no INSERT is attempted and no object-store delete is issued.
C34_InsertFollowsOneSuccessfulUpload ==
  \A s \in Slots :
    LET r == req[s] IN
    CreateSingleHandler(r)
      => /\ CallsOf(r, "insert") # <<>>
              => /\ Len(CallsOf(r, "upload")) = 1
                 /\ Len(Uploaded(r)) = 1
                 /\ r.log[1] = Call("upload", Uploaded(r)[1], TRUE)
                 /\ r.log[2].call = "insert"
         /\ Succeeded(r, "insert")
              => /\ Len(Uploaded(r)) = 1
                 /\ products[r.id].cloudinary_id = Uploaded(r)[1]
         /\ (Finished(r) /\ ~r.file)
              => Status(r) = 400 /\ r.log = <<>>
         /\ (Finished(r) /\ Failed(r, "upload"))
              => Status(r) = 500 /\ r.log = <<Call("upload", 0, FALSE)>>

\* A create whose upload failed was answered 500, the failed upload being
\* its only store call; another one, with no file, would be answered 400.
C34_Witness ==
  \E s \in Slots :
    LET r == req[s] IN
    /\ CreateSingleHandler(r) /\ Finished(r)
    /\ r.file /\ Failed(r, "upload")
    /\ Status(r) = 500
    /\ CallsOf(r, "insert") = <<>> /\ CallsOf(r, "destroy") = <<>>
    /\ nextId = SeedId + 1 /\ nextObj = SeedObj + 1

\* A create, update or delete of the auth-enabled revision that came
\* without a valid bearer token.
Unauthenticated(r) ==
  /\ rev = "part_002" /\ r.op \in {"create", "update", "delete"}
  /\ r.token \in {"missing", "expired", "invalid"}

\* C35: in the auth-enabled revision, create, update and delete invoked
\* with a missing, expired or invalid bearer token are rejected by
\* authenticateToken, with 401 for a missing or expired token and 403 for an
\* invalid one, before the route handler runs: the request is answered on
\* arrival and makes no record-store or object-store call.
C35_BadTokenIsRejectedBeforeHandler ==
  \A s \in Slots :
    LET r == req[s] IN
    Unauthenticated(r)
      => /\ r.pc = "done"
         /\ Status(r) = IF r.token = "invalid" THEN 403 ELSE 401
         /\ r.log = <<>>
         /\ r.existing = <<>> /\ r.user = NoUser

\* An update with an expired token was answered 401; the product it named
\* and its image are as they were.
C35_Witness ==
  \E s \in Slots :
    LET r == req[s] IN
    /\ Unauthenticated(r) /\ r.op = "update" /\ r.token = "expired"
    /\ r.id = SeedId /\ r.file
    /\ Status(r) = 401
    /\ SeedId \in DOMAIN products /\ products[SeedId] = SeedRow
    /\ cloud = {SeedObj} /\ nextObj = SeedObj + 1

\* A step of the handler, in slot s, of a single-image update that carries
\* no new image file.
UpdateWithoutFileSteps(s) ==
  /\ rev \in SingleImage /\ req[s].op = "update" /\ ~req[s].file
  /\ InFlight(req[s]) /\ req'[s] # req[s]

\* C36: in the single-image update, a request that carries no new image
\* file makes no object-store call and leaves the row's image_url and
\* cloudinary_id unchanged, whether the record-store UPDATE succeeds or
\* fails: no step of its handler changes the object store or logs an
\* object-store call, and the row has the same image_url and cloudinary_id
\* after the step as before.
C36_UpdateWithoutFileKeepsImage ==
  [][\A s \in Slots :
       UpdateWithoutFileSteps(s)
         => /\ cloud' = cloud /\ nextObj' = nextObj
            /\ CallsOf(req'[s], "upload") = <<>>
            /\ CallsOf(req'[s], "destroy") = <<>>
            /\ DOMAIN products' = DOMAIN products
            /\ \A id \in DOMAIN products :
                 /\ products'[id].image_url = products[id].image_url
                 /\ products'[id].cloudinary_id = products[id].cloudinary_id]_vars

\* A step of the handler in slot s.
HandlerSteps(s) == InFlight(req[s]) /\ req'[s] # req[s]

\* The call the handler in slot s made in this step, if it made one.
MadeCall(s, calls) ==
  /\ Len(req'[s].log) = Len(req[s].log) + 1
  /\ req'[s].log[Len(req'[s].log)].call \in calls
  /\ req'[s].log[Len(req'[s].log)].ok

\* C37: the read operations, GET list and GET by id, leave the record
\* store and the object store unchanged in every revision, and products
\* are created, mutated and destroyed only by the create, update and delete
\* handlers: a step that changes the products table is a successful INSERT
\* of a create, UPDATE of an update or DELETE of a delete, and a step that
\* changes the object store is a successful upload or delete made by one of
\* these handlers.
C37_OnlyMutatingHandlersChangeTheStores ==
  [][/\ \A s \in Slots :
          (HandlerSteps(s) /\ req[s].op \in {"get", "list"})
            => /\ products' = products /\ nextId' = nextId
               /\ cloud' = cloud /\ nextObj' = nextObj
     /\ products' # products
          => \E s \in Slots :
               /\ HandlerSteps(s)
               /\ \/ req[s].op = "create" /\ MadeCall(s, {"insert"})
                  \/ req[s].op = "update" /\ MadeCall(s, {"update"})
                  \/ req[s].op = "delete" /\ MadeCall(s, {"delete"})
     /\ cloud' # cloud
          => \E s \in Slots :
               /\ HandlerSteps(s)
               /\ req[s].op \in {"create", "update", "delete"}
               /\ MadeCall(s, {"upload", "destroy"})]_vars

\* A list that followed a create returned the two rows of the table, which
\* are still there with their images.
C37_Witness ==
  \E s \in Slots :
    LET r == req[s] IN
    /\ r.op = "list" /\ Finished(r) /\ Status(r) = 200
    /\ r.log = <<Call("select", 0, TRUE)>>
    /\ Len(r.resp[1].product) = 2
    /\ Cardinality(DOMAIN products) = 2
    /\ r.resp[1].product[1] = products[SeedId + 1]
    /\ r.resp[1].product[2] = products[SeedId]
    /\ SeedObj \in cloud

====
